---- MODULE Spec2Model ----
(***************************************************************************)
(* upkit-common-x509: the X.509 certificate path validator                 *)
(* (cert/validate.rs), its extension checkers (cert/validate/checkers/)    *)
(* and the certificate accessors they read (cert/parse.rs).                *)
(*                                                                         *)
(* A DER blob is a string naming it.  CertificateParser::from_bytes        *)
(* decodes the blobs of DOMAIN Certs and rejects every other blob.  A      *)
(* decoded certificate is the record of the values its accessors return.   *)
(***************************************************************************)
EXTENDS Integers, Sequences, FiniteSets, TLC

(***************************************************************************)
(* Bounds of the model.                                                    *)
(***************************************************************************)
\* longest leaf_certificate_chain_der handed to validate()
MaxChain == 3
\* at_epoch_seconds ranges over 0..MaxTime
MaxTime == 2
\* longest all_leafs_extension_checkers list the builder calls may produce
MaxCheckers == 3

(***************************************************************************)
(* Option<T>: None is the empty sequence, Some(x) is <<x>>.                *)
(***************************************************************************)
None == <<>>
Some(x) == <<x>>
IsSome(o) == o # <<>>
Unwrap(o) == o[1]

(***************************************************************************)
(* Extension object identifiers.                                           *)
(***************************************************************************)
BasicConstraints_OID == <<2, 5, 29, 19>>
KeyUsage_OID == <<2, 5, 29, 15>>
AuthorityKeyIdentifier_OID == <<2, 5, 29, 35>>
SubjectKeyIdentifier_OID == <<2, 5, 29, 14>>
CertificatePolicy_OID == <<2, 5, 29, 32>>
ExtendedKeyUsage_OID == <<2, 5, 29, 37>>

(***************************************************************************)
(* BasicConstraints { ca, path_len }.                                      *)
(***************************************************************************)
new_leaf == [ca |-> FALSE, path_len |-> None]
new_ca(path_len) == [ca |-> TRUE, path_len |-> path_len]
is_leaf(bc) == ~bc.ca
is_ca(bc) == bc.ca
path_len(bc) == IF bc.ca THEN bc.path_len ELSE None

(***************************************************************************)
(* The signature engines the registry knows, by dotted OID string.  The    *)
(* engine's verify(public_key, signature, tbs) succeeds exactly when the   *)
(* signature was made with the private half of public_key.                 *)
(***************************************************************************)
KnownSignatureOids == {"1.3.101.112"}

(***************************************************************************)
(* The certificates of the model: what the accessors of CertificateParser  *)
(* return for each decodable DER blob.                                     *)
(*   Leaf        L  <- I   end entity, KeyUsage critical                   *)
(*   LeafEku     E  <- R   end entity, ExtendedKeyUsage and policies       *)
(*                         critical, no DigitalSignature, foreign AKI      *)
(*   LeafBadSig  B  <- R   signature made with a foreign key               *)
(*   LeafOther   O  <- R   end entity with another ExtendedKeyUsage and    *)
(*                         another policy, both critical                   *)
(*   LeafUnkAlg  U  <- I   signature algorithm without an engine           *)
(*   Sub         I  <- R   CA, no path length                              *)
(*   SubP0       I  <- R   CA, path length 0                               *)
(*   Root        R  <- R   self-signed CA, expires first                   *)
(*   Root2       R  <- R   another self-signed CA with the same DN         *)
(*   RootP0      R  <- R   Root's key in a self-signed CA with path        *)
(*                         length 0; only ever registered as an anchor     *)
(*   RootAlt     R  <- R   Root's key in a self-signed CA without KeyUsage *)
(*                         and key identifiers, declaring an extended key  *)
(*                         usage and a policy; only ever an anchor         *)
(*   LeafKid     K  <- R   end entity whose key identifiers are critical;  *)
(*                         only supplied to the key identifier checker     *)
(*   CaE         E  <- E   self-signed CA with the DN of LeafEku; only     *)
(*                         supplied to the ordering scenario               *)
(***************************************************************************)
\* a blob the DER codec rejects
Garbage == "garbage"

Cert(subject, issuer, spki, signer, sig_oid, nb, na, bc, ku, aki, ski, ekus, pols, crit) ==
    [subject |-> subject, issuer |-> issuer, spki |-> spki, signer |-> signer,
     sig_oid |-> sig_oid, not_before |-> nb, not_after |-> na,
     basic_constraints |-> bc, key_usage |-> ku,
     aki |-> aki, ski |-> ski, ekus |-> ekus, policies |-> pols,
     critical |-> crit]

Certs ==
    "Leaf" :> Cert("L", "I", "kL", "kI", "1.3.101.112", 1, 2,
                 None, Some({"DigitalSignature"}), Some("idI"), Some("idL"),
                 {"PkixServerAuth"}, {}, {KeyUsage_OID})
 @@ "LeafEku" :> Cert("E", "R", "kE", "kR", "1.3.101.112", 1, 2,
                 None, Some({"KeyEncipherment"}), Some("idX"), None,
                 {"PkixServerAuth"}, {"CabfDomainValidated"},
                 {ExtendedKeyUsage_OID, KeyUsage_OID, CertificatePolicy_OID})
 @@ "LeafBadSig" :> Cert("B", "R", "kB", "kX", "1.3.101.112", 1, 2,
                 Some(new_leaf), Some({"DigitalSignature"}), Some("idR"), Some("idB"),
                 {}, {}, {KeyUsage_OID})
 @@ "LeafOther" :> Cert("O", "R", "kO", "kR", "1.3.101.112", 1, 2,
                 None, None, None, None,
                 {"PkixClientAuth"}, {"OtherPolicy"},
                 {ExtendedKeyUsage_OID, CertificatePolicy_OID})
 @@ "LeafUnkAlg" :> Cert("U", "I", "kU", "kI", "1.2.3.4", 1, 2,
                 None, Some({"KeyEncipherment"}), None, None,
                 {}, {}, {KeyUsage_OID})
 @@ "Sub" :> Cert("I", "R", "kI", "kR", "1.3.101.112", 1, 2,
                 Some(new_ca(None)), Some({"KeyCertSign", "CRLSign"}), Some("idR"), Some("idI"),
                 {}, {}, {BasicConstraints_OID, KeyUsage_OID})
 @@ "SubP0" :> Cert("I", "R", "kI", "kR", "1.3.101.112", 1, 2,
                 Some(new_ca(Some(0))), Some({"KeyCertSign", "CRLSign"}), Some("idR"), Some("idI"),
                 {}, {}, {BasicConstraints_OID, KeyUsage_OID})
 @@ "Root" :> Cert("R", "R", "kR", "kR", "1.3.101.112", 1, 1,
                 Some(new_ca(None)), Some({"KeyCertSign", "CRLSign"}), None, Some("idR"),
                 {}, {}, {BasicConstraints_OID, KeyUsage_OID})
 @@ "Root2" :> Cert("R", "R", "kR2", "kR2", "1.3.101.112", 0, 2,
                 Some(new_ca(None)), Some({"KeyCertSign"}), None, None,
                 {}, {}, {BasicConstraints_OID})
 @@ "RootP0" :> Cert("R", "R", "kR", "kR", "1.3.101.112", 1, 2,
                 Some(new_ca(Some(0))), Some({"KeyCertSign", "CRLSign"}), None, Some("idR"),
                 {}, {}, {BasicConstraints_OID, KeyUsage_OID})
 @@ "RootAlt" :> Cert("R", "R", "kR", "kR", "1.3.101.112", 1, 2,
                 Some(new_ca(None)), None, None, None,
                 {"PkixServerAuth"}, {"CabfDomainValidated"}, {BasicConstraints_OID})
 @@ "LeafKid" :> Cert("K", "R", "kK", "kR", "1.3.101.112", 1, 2,
                 None, Some({"DigitalSignature"}), Some("idR"), Some("idK"),
                 {}, {}, {AuthorityKeyIdentifier_OID, SubjectKeyIdentifier_OID})
 @@ "CaE" :> Cert("E", "E", "kCE", "kCE", "1.3.101.112", 1, 2,
                 Some(new_ca(None)), Some({"KeyCertSign"}), None, None,
                 {}, {}, {BasicConstraints_OID})
\* the certificates that callers register as anchors and never put in a chain
AnchorOnlyCerts == {"RootP0", "RootAlt"}
\* the certificates that only the calls of SpecCheckers and SpecOrder supply
CheckerOnlyCerts == {"LeafKid", "CaE"}

(***************************************************************************)
(* CertificateParser: construction and accessors.  A parser is kept as     *)
(* the blob it decoded.                                                    *)
(***************************************************************************)
from_bytes(der) == IF der \in DOMAIN Certs THEN Some(der) ELSE None
fingerprint_data(data) == <<"SHA3-512", data>>
fingerprint(cp) == fingerprint_data(cp)
get_validity(cp) == [not_before_epoch_seconds |-> Certs[cp].not_before,
                     not_after_epoch_seconds |-> Certs[cp].not_after]
get_encoded_subject(cp) == Certs[cp].subject
get_encoded_issuer(cp) == Certs[cp].issuer
get_encoded_subject_public_key_info(cp) == Certs[cp].spki
get_encoded_signature(cp) == [oid |-> Certs[cp].sig_oid, signature |-> Certs[cp].signer]
get_critical_extension_oids(cp) == Certs[cp].critical
get_basic_constraints(cp) == Certs[cp].basic_constraints
get_key_usage(cp) == Certs[cp].key_usage
get_extended_key_usage(cp) == Certs[cp].ekus
get_authority_key_identifier_kid(cp) == Certs[cp].aki
get_subject_key_identifier_kid(cp) == Certs[cp].ski
get_certificate_policies(cp) == Certs[cp].policies

(***************************************************************************)
(* Validity::is_valid_at: the closed interval.                             *)
(***************************************************************************)
\* variant of is_valid_at that forgets the not_before bound
is_valid_at_no_not_before(validity, point_in_time_epoch_seconds) ==
    IF point_in_time_epoch_seconds > validity.not_after_epoch_seconds THEN FALSE
    ELSE TRUE
is_valid_at(validity, point_in_time_epoch_seconds) ==
    IF point_in_time_epoch_seconds > validity.not_after_epoch_seconds THEN FALSE
    ELSE IF point_in_time_epoch_seconds < validity.not_before_epoch_seconds THEN FALSE
    ELSE TRUE

(***************************************************************************)
(* Sequence helpers of the Rust iterators used by the validator.           *)
(***************************************************************************)
\* iter().position(pred): the 1-based index of the first match, or None
RECURSIVE PositionFrom(_, _, _)
PositionFrom(seq, Pred(_), i) ==
    IF i > Len(seq) THEN None
    ELSE IF Pred(seq[i]) THEN Some(i)
    ELSE PositionFrom(seq, Pred, i + 1)
Position(seq, Pred(_)) == PositionFrom(seq, Pred, 1)
\* Vec::remove(index), index 1-based
RemoveAt(seq, index) == SubSeq(seq, 1, index - 1) \o SubSeq(seq, index + 1, Len(seq))
\* SkipMap::insert replaces the entry of an existing key
MapInsert(map, key, value) == (key :> value) @@ map
Range(seq) == {seq[i] : i \in DOMAIN seq}

(***************************************************************************)
(* CertificatePathValidator::new: index the trust anchors in list order;   *)
(* the first blob that does not decode ends construction with an error.    *)
(***************************************************************************)
RECURSIVE new_loop(_, _, _)
new_loop(trusted_anchors_der, by_subject, by_fingerprint) ==
    IF trusted_anchors_der = <<>>
    THEN [res |-> "Ok", fingerprint_by_subject |-> by_subject,
          trust_anchors_by_fingerprint |-> by_fingerprint]
    ELSE LET parsed == from_bytes(Head(trusted_anchors_der)) IN
         IF IsSome(parsed)
         THEN LET trusted_anchor == Unwrap(parsed) IN
              new_loop(Tail(trusted_anchors_der),
                       MapInsert(by_subject, get_encoded_subject(trusted_anchor),
                                 fingerprint(trusted_anchor)),
                       MapInsert(by_fingerprint, fingerprint(trusted_anchor),
                                 trusted_anchor))
         ELSE [res |-> "CertificateParsingError", fingerprint_by_subject |-> <<>>,
               trust_anchors_by_fingerprint |-> <<>>]
new(trusted_anchors_der) == new_loop(trusted_anchors_der, <<>>, <<>>)

(***************************************************************************)
(* validate, step 1: parse every entry and keep those valid at the query   *)
(* time.  from_bytes(..).unwrap() aborts on an entry that does not decode. *)
(***************************************************************************)
RECURSIVE time_filter_loop(_, _, _)
time_filter_loop(chain_der, at_epoch_seconds, leaf_certificates) ==
    IF chain_der = <<>>
    THEN [res |-> "continue", leaf_certificates |-> leaf_certificates]
    ELSE LET parsed == from_bytes(Head(chain_der)) IN
         IF ~IsSome(parsed)
         THEN [res |-> "panic", leaf_certificates |-> leaf_certificates]
         ELSE IF is_valid_at(get_validity(Unwrap(parsed)), at_epoch_seconds)
         THEN time_filter_loop(Tail(chain_der), at_epoch_seconds,
                               Append(leaf_certificates, Unwrap(parsed)))
         ELSE [res |-> "InvalidLifeSpan", leaf_certificates |-> leaf_certificates]
time_filter(chain_der, at_epoch_seconds) ==
    time_filter_loop(chain_der, at_epoch_seconds, <<>>)

(***************************************************************************)
(* validate, step 2: the leafs are the certificates without                *)
(* BasicConstraints or with ca = false.                                    *)
(***************************************************************************)
is_leaf_certificate(lcp) ==
    LET basic_constraints == get_basic_constraints(lcp) IN
    ~IsSome(basic_constraints) \/ is_leaf(Unwrap(basic_constraints))
leafs_of(leaf_certificates) == SelectSeq(leaf_certificates, is_leaf_certificate)
\* variant of leaf_detection that only turns down a chain without any leaf
leaf_detection_some_leaf(leaf_certificates) ==
    LET leafs == leafs_of(leaf_certificates) IN
    IF Len(leafs) = 0 THEN "NotOneLeaf"
    ELSE "continue"
leaf_detection(leaf_certificates) ==
    LET leafs == leafs_of(leaf_certificates) IN
    IF Len(leafs) = 0 THEN "NotOneLeaf"
    ELSE IF Len(leafs) > 1 THEN "NotOneLeaf"
    ELSE "continue"

(***************************************************************************)
(* validate, step 3: order the chain leaf to root.  The loop runs once     *)
(* per supplied certificate and each round moves the first certificate     *)
(* whose subject is current_subject.                                       *)
(***************************************************************************)
RECURSIVE order_loop(_, _, _, _)
order_loop(rounds, leaf_certificates, current_subject, leaf_chain) ==
    IF rounds = 0
    THEN [res |-> "continue", leaf_chain |-> leaf_chain]
    ELSE LET SubjectIs(cp) == get_encoded_subject(cp) = current_subject
             index == Position(leaf_certificates, SubjectIs) IN
         IF IsSome(index)
         THEN LET cp == leaf_certificates[Unwrap(index)] IN
              order_loop(rounds - 1, RemoveAt(leaf_certificates, Unwrap(index)),
                         get_encoded_issuer(cp), Append(leaf_chain, cp))
         ELSE [res |-> "NotOneLeaf", leaf_chain |-> leaf_chain]
\* variant of order_chain that starts from the first supplied certificate
order_chain_from_first(leaf_certificates) ==
    order_loop(Len(leaf_certificates), leaf_certificates,
               get_encoded_subject(Head(leaf_certificates)), <<>>)
order_chain(leaf_certificates) ==
    LET leaf == Head(leafs_of(leaf_certificates)) IN
    order_loop(Len(leaf_certificates), leaf_certificates,
               get_encoded_subject(leaf), <<>>)

(***************************************************************************)
(* validate, step 4: pick the trust anchor.  A certificate of the chain    *)
(* that is a trust anchor itself (by fingerprint) is looked for first:     *)
(* the chain is cut to leaf_chain[0..pos], the positions before it.        *)
(* Otherwise the first certificate whose issuer is indexed by subject      *)
(* gets that anchor appended: leaf_chain[0..=pos] plus the anchor.         *)
(***************************************************************************)
attach_trust(leaf_chain, by_subject, by_fingerprint) ==
    LET IsAnchor(cp) == fingerprint(cp) \in DOMAIN by_fingerprint
        IssuedByAnchor(cp) == get_encoded_issuer(cp) \in DOMAIN by_subject
        pos_fp == Position(leaf_chain, IsAnchor)
        pos_iss == Position(leaf_chain, IssuedByAnchor) IN
    IF IsSome(pos_fp)
    THEN [res |-> "continue", how |-> "fingerprint", pos |-> Unwrap(pos_fp),
          chain_with_trust |-> SubSeq(leaf_chain, 1, Unwrap(pos_fp) - 1)]
    ELSE IF IsSome(pos_iss)
    THEN LET cp == leaf_chain[Unwrap(pos_iss)]
             fp == by_subject[get_encoded_issuer(cp)]
             trusted == by_fingerprint[fp] IN
         [res |-> "continue", how |-> "issuer", pos |-> Unwrap(pos_iss),
          chain_with_trust |-> Append(SubSeq(leaf_chain, 1, Unwrap(pos_iss)), trusted)]
    ELSE [res |-> "NotTrusted", how |-> "none", pos |-> 0, chain_with_trust |-> <<>>]

(***************************************************************************)
(* validate, step 5: the last certificate of chain_with_trust is taken as  *)
(* the selected trust anchor; last().unwrap() aborts on an empty chain.    *)
(***************************************************************************)
anchor_time_check(chain_with_trust, at_epoch_seconds) ==
    IF chain_with_trust = <<>> THEN "panic"
    ELSE LET selected_trust_anchor == chain_with_trust[Len(chain_with_trust)] IN
         IF ~is_valid_at(get_validity(selected_trust_anchor), at_epoch_seconds)
         THEN "InvalidLifeSpan"
         ELSE "continue"

(***************************************************************************)
(* validate, step 6: from the certificate below the last one down to the   *)
(* leaf, verify each signature with the key of the certificate above it.   *)
(***************************************************************************)
se_verify(public_key, signature, tbs_certificate) == signature = public_key
verify_one(current, current_issuer) ==
    LET public_key == get_encoded_subject_public_key_info(current_issuer)
        sig == get_encoded_signature(current) IN
    IF sig.oid \in KnownSignatureOids
    THEN IF ~se_verify(public_key, sig.signature, current)
         THEN "InvalidSignature"
         ELSE "continue"
    ELSE "UnknownSignature"
RECURSIVE verify_loop(_, _)
verify_loop(chain_with_trust, i) ==
    IF i < 1 THEN "continue"
    ELSE LET r == verify_one(chain_with_trust[i], chain_with_trust[i + 1]) IN
         IF r # "continue" THEN r ELSE verify_loop(chain_with_trust, i - 1)
\* variant of verify_signatures that lets every chain through
verify_signatures_skipped(chain_with_trust) == "continue"
verify_signatures(chain_with_trust) ==
    verify_loop(chain_with_trust, Len(chain_with_trust) - 1)

(***************************************************************************)
(* validate, step 7: the critical extension OIDs of every certificate of   *)
(* chain_with_trust but the last.                                          *)
(***************************************************************************)
collect_critical_extension_oids(chain_with_trust) ==
    UNION {get_critical_extension_oids(chain_with_trust[i]) :
              i \in 1..(Len(chain_with_trust) - 1)}

(***************************************************************************)
(* The extension checkers.  A checker is a record of its kind and its      *)
(* required values for the leaf (index 0) and for the issuers (index > 0). *)
(* check_extensions returns its result and the unresolved set it leaves.   *)
(* Chains are 1-based here: chain[i] is the certificate of index i - 1.    *)
(***************************************************************************)
BasicConstraintsChecker_default ==
    [kind |-> "BasicConstraintsChecker", leaf |-> {}, issuer |-> {}]
KeyUsageChecker_new(required_leaf_kus, required_issuer_kus) ==
    [kind |-> "KeyUsageChecker", leaf |-> required_leaf_kus, issuer |-> required_issuer_kus]
KeyUsageChecker_default == KeyUsageChecker_new({"DigitalSignature"}, {"KeyCertSign"})
KeyIdentifierChecker_default ==
    [kind |-> "KeyIdentifierChecker", leaf |-> {}, issuer |-> {}]
ExtendedKeyUsageChecker_new(required_leaf_ekus) ==
    [kind |-> "ExtendedKeyUsageChecker", leaf |-> required_leaf_ekus, issuer |-> {}]
CertificatePoliciesChecker_new(required_leaf_policies) ==
    [kind |-> "CertificatePoliciesChecker", leaf |-> required_leaf_policies, issuer |-> {}]
ExtendedKeyUsageChecker_with_issuer_ekus(required_leaf_ekus, required_issuer_ekus) ==
    [kind |-> "ExtendedKeyUsageChecker", leaf |-> required_leaf_ekus,
     issuer |-> required_issuer_ekus]
CertificatePoliciesChecker_with_issuer_policies(required_leaf_policies, required_issuer_policies) ==
    [kind |-> "CertificatePoliciesChecker", leaf |-> required_leaf_policies,
     issuer |-> required_issuer_policies]

CheckOk(unresolved_extensions) ==
    [res |-> "Ok", unresolved_extensions |-> unresolved_extensions]
CheckErr(unresolved_extensions) ==
    [res |-> "ExtensionHandlingFailure", unresolved_extensions |-> unresolved_extensions]

is_ca_with_sufficient_path_len(basic_constraints, required_path_len) ==
    IsSome(basic_constraints)
    /\ LET bc == Unwrap(basic_constraints) IN
       is_ca(bc) /\ (~IsSome(path_len(bc)) \/ Unwrap(path_len(bc)) >= required_path_len)

BasicConstraintsChecker_check_extensions(self, chain_with_trust, unresolved_extensions) ==
    LET ok == \E n \in 2..Len(chain_with_trust) :
                  ~is_ca_with_sufficient_path_len(
                       get_basic_constraints(chain_with_trust[n]), n - 1) IN
    IF ok THEN CheckOk(unresolved_extensions \ {BasicConstraints_OID})
    ELSE CheckErr(unresolved_extensions)

\* variant of KeyUsageChecker::check_extensions that removes the OID first
KeyUsageChecker_check_extensions_remove_first(self, chain_with_trust, unresolved_extensions) ==
    LET failure == \E n \in 1..Len(chain_with_trust) :
            LET required_kus == IF n - 1 > 0 THEN self.issuer ELSE self.leaf
                ku == get_key_usage(chain_with_trust[n]) IN
            IF IsSome(ku)
            THEN \E required_key_usage \in required_kus :
                     required_key_usage \notin Unwrap(ku)
            ELSE required_kus # {} IN
    IF failure THEN CheckErr(unresolved_extensions \ {KeyUsage_OID})
    ELSE CheckOk(unresolved_extensions \ {KeyUsage_OID})
\* variant of KeyUsageChecker::check_extensions that lets a certificate
\* without the extension pass
KeyUsageChecker_check_extensions_absent_passes(self, chain_with_trust, unresolved_extensions) ==
    LET failure == \E n \in 1..Len(chain_with_trust) :
            LET required_kus == IF n - 1 > 0 THEN self.issuer ELSE self.leaf
                ku == get_key_usage(chain_with_trust[n]) IN
            IF IsSome(ku)
            THEN \E required_key_usage \in required_kus :
                     required_key_usage \notin Unwrap(ku)
            ELSE FALSE IN
    IF failure THEN CheckErr(unresolved_extensions)
    ELSE CheckOk(unresolved_extensions \ {KeyUsage_OID})
KeyUsageChecker_check_extensions(self, chain_with_trust, unresolved_extensions) ==
    LET failure == \E n \in 1..Len(chain_with_trust) :
            LET required_kus == IF n - 1 > 0 THEN self.issuer ELSE self.leaf
                ku == get_key_usage(chain_with_trust[n]) IN
            IF IsSome(ku)
            THEN \E required_key_usage \in required_kus :
                     required_key_usage \notin Unwrap(ku)
            ELSE required_kus # {} IN
    IF failure THEN CheckErr(unresolved_extensions)
    ELSE CheckOk(unresolved_extensions \ {KeyUsage_OID})

\* variant of the key identifier loop that lets an issuer without
\* SubjectKeyIdentifier pass
RECURSIVE key_identifier_loop_missing_passes(_, _, _)
key_identifier_loop_missing_passes(chain_with_trust, n, last_aki) ==
    IF n > Len(chain_with_trust) THEN TRUE
    ELSE LET cp == chain_with_trust[n]
             ski == get_subject_key_identifier_kid(cp) IN
         IF IsSome(last_aki) /\ IsSome(ski) /\ Unwrap(ski) # Unwrap(last_aki) THEN FALSE
         ELSE key_identifier_loop_missing_passes(chain_with_trust, n + 1,
                                  get_authority_key_identifier_kid(cp))
RECURSIVE key_identifier_loop(_, _, _)
key_identifier_loop(chain_with_trust, n, last_aki) ==
    IF n > Len(chain_with_trust) THEN TRUE
    ELSE LET cp == chain_with_trust[n]
             ski == get_subject_key_identifier_kid(cp) IN
         IF IsSome(last_aki) /\ ~IsSome(ski) THEN FALSE
         ELSE IF IsSome(last_aki) /\ Unwrap(ski) # Unwrap(last_aki) THEN FALSE
         ELSE key_identifier_loop(chain_with_trust, n + 1,
                                  get_authority_key_identifier_kid(cp))
KeyIdentifierChecker_check_extensions(self, chain_with_trust, unresolved_extensions) ==
    IF key_identifier_loop(chain_with_trust, 1, None)
    THEN CheckOk(unresolved_extensions
                    \ {AuthorityKeyIdentifier_OID, SubjectKeyIdentifier_OID})
    ELSE CheckErr(unresolved_extensions)

\* variant of CertificatePoliciesChecker::check_extensions that requires the
\* leaf policies of every certificate
CertificatePoliciesChecker_check_extensions_leaf_set(self, chain_with_trust, unresolved_extensions) ==
    LET failure == \E n \in 1..Len(chain_with_trust) :
            LET required_policies == self.leaf
                policies == get_certificate_policies(chain_with_trust[n]) IN
            IF policies = {} THEN required_policies # {}
            ELSE \E required_policy \in required_policies :
                     required_policy \notin policies IN
    IF failure THEN CheckErr(unresolved_extensions)
    ELSE CheckOk(unresolved_extensions \ {CertificatePolicy_OID})
CertificatePoliciesChecker_check_extensions(self, chain_with_trust, unresolved_extensions) ==
    LET failure == \E n \in 1..Len(chain_with_trust) :
            LET required_policies == IF n - 1 > 0 THEN self.issuer ELSE self.leaf
                policies == get_certificate_policies(chain_with_trust[n]) IN
            IF policies = {} THEN required_policies # {}
            ELSE \E required_policy \in required_policies :
                     required_policy \notin policies IN
    IF failure THEN CheckErr(unresolved_extensions)
    ELSE CheckOk(unresolved_extensions \ {CertificatePolicy_OID})

ExtendedKeyUsageChecker_check_extensions(self, chain_with_trust, unresolved_extensions) ==
    LET failure == \E n \in 1..Len(chain_with_trust) :
            LET required_ekus == IF n - 1 > 0 THEN self.issuer ELSE self.leaf
                ekus == get_extended_key_usage(chain_with_trust[n]) IN
            IF ekus = {} THEN required_ekus # {}
            ELSE \E required_eku \in required_ekus : required_eku \notin ekus IN
    IF failure THEN CheckErr(unresolved_extensions)
    ELSE CheckOk(unresolved_extensions \ {ExtendedKeyUsage_OID})

\* the dynamic dispatch of ExtensionChecker::check_extensions
check_extensions(self, chain_with_trust, unresolved_extensions) ==
    CASE self.kind = "BasicConstraintsChecker" ->
             BasicConstraintsChecker_check_extensions(self, chain_with_trust, unresolved_extensions)
      [] self.kind = "KeyUsageChecker" ->
             KeyUsageChecker_check_extensions(self, chain_with_trust, unresolved_extensions)
      [] self.kind = "KeyIdentifierChecker" ->
             KeyIdentifierChecker_check_extensions(self, chain_with_trust, unresolved_extensions)
      [] self.kind = "CertificatePoliciesChecker" ->
             CertificatePoliciesChecker_check_extensions(self, chain_with_trust, unresolved_extensions)
      [] self.kind = "ExtendedKeyUsageChecker" ->
             ExtendedKeyUsageChecker_check_extensions(self, chain_with_trust, unresolved_extensions)

(***************************************************************************)
(* validate, steps 8 and 9: the always-on checkers, then the checkers of   *)
(* this call, each on the set the one before left; the first error ends    *)
(* the call.  Left-over critical OIDs are an error.                        *)
(***************************************************************************)
RECURSIVE run_checkers(_, _, _)
run_checkers(extension_checkers, chain_with_trust, unresolved_extensions) ==
    IF extension_checkers = <<>> THEN CheckOk(unresolved_extensions)
    ELSE LET r == check_extensions(Head(extension_checkers), chain_with_trust,
                                   unresolved_extensions) IN
         IF r.res # "Ok" THEN r
         ELSE run_checkers(Tail(extension_checkers), chain_with_trust,
                           r.unresolved_extensions)
closure(critical_extension_oids) ==
    IF critical_extension_oids # {} THEN "UnhandledCriticalExtensions" ELSE "Ok"

(***************************************************************************)
(* validate as a whole: the outcome of one call (Ok, an error kind, or     *)
(* panic) as a function of the validator and the arguments.                *)
(***************************************************************************)
validate_outcome(by_subject, by_fingerprint, always_on, chain_der, at_epoch_seconds, additional) ==
    LET s1 == time_filter(chain_der, at_epoch_seconds) IN
    IF s1.res # "continue" THEN s1.res ELSE
    LET s2 == leaf_detection(s1.leaf_certificates) IN
    IF s2 # "continue" THEN s2 ELSE
    LET s3 == order_chain(s1.leaf_certificates) IN
    IF s3.res # "continue" THEN s3.res ELSE
    LET s4 == attach_trust(s3.leaf_chain, by_subject, by_fingerprint) IN
    IF s4.res # "continue" THEN s4.res ELSE
    LET s5 == anchor_time_check(s4.chain_with_trust, at_epoch_seconds) IN
    IF s5 # "continue" THEN s5 ELSE
    LET s6 == verify_signatures(s4.chain_with_trust) IN
    IF s6 # "continue" THEN s6 ELSE
    LET s8 == run_checkers(always_on \o additional, s4.chain_with_trust,
                           collect_critical_extension_oids(s4.chain_with_trust)) IN
    IF s8.res # "Ok" THEN s8.res ELSE closure(s8.unresolved_extensions)

(***************************************************************************)
(* State.  The validator's three fields, how its construction ended, and   *)
(* per thread the position and the locals of its validate call.            *)
(***************************************************************************)
VARIABLES
    validator_state,               \* "none", "ready" or "CertificateParsingError"
    fingerprint_by_subject,        \* encoded subject DN -> fingerprint
    trust_anchors_by_fingerprint,  \* fingerprint -> CertificateParser
    all_leafs_extension_checkers,  \* the always-on checkers, in order
    call,                          \* thread -> locals of its validate call
    extensions,                    \* the Vec<Extension> of an Extensions value
    tbs,                           \* a NoSignatureTbsCertificate and what it emitted
    serial,                        \* the last SerialNumber::generate call
    pem,                           \* the last pem::parse call
    dn                             \* the last DistinguishedName::new call

vars == <<validator_state, fingerprint_by_subject, trust_anchors_by_fingerprint,
          all_leafs_extension_checkers, call, extensions, tbs, serial, pem, dn>>
\* the values outside the path validator
units == <<extensions, tbs, serial, pem, dn>>
NoUnit == [op |-> "none"]
UnitsUnused ==
    /\ extensions = <<>>
    /\ tbs = NoUnit
    /\ serial = NoUnit
    /\ pem = NoUnit
    /\ dn = NoUnit
validator == <<validator_state, fingerprint_by_subject, trust_anchors_by_fingerprint,
               all_leafs_extension_checkers>>

IdleCall ==
    [pc |-> "idle",
     leaf_certificate_chain_der |-> <<>>,
     at_epoch_seconds |-> 0,
     additional_extension_checkers |-> <<>>,
     leaf_certificates |-> <<>>,
     leaf_chain |-> <<>>,
     trust_how |-> "none",
     trust_pos |-> 0,
     chain_with_trust |-> <<>>,
     critical_extension_oids |-> {},
     invoked |-> <<>>,
     result |-> "none",
     earlier |-> None]

(***************************************************************************)
(* The inputs the operations are called with.                              *)
(***************************************************************************)
ChainDers == (DOMAIN Certs \ (AnchorOnlyCerts \cup CheckerOnlyCerts)) \cup {Garbage}
ChainInputs == UNION {[1..n -> ChainDers] : n \in 0..MaxChain}
Times == 0..MaxTime
AnchorLists ==
    {<<"Root">>, <<"Leaf">>, <<"Root", "Root2">>,
     <<Garbage>>, <<"Root", Garbage>>}
AlwaysOnLists ==
    {<<ExtendedKeyUsageChecker_new({"PkixServerAuth"}),
       CertificatePoliciesChecker_new({"CabfDomainValidated"}),
       KeyUsageChecker_new({"DigitalSignature"}, {})>>}
PerCallLists ==
    {<<>>, <<KeyIdentifierChecker_default>>,
     <<CertificatePoliciesChecker_new({"CabfDomainValidated"}),
       ExtendedKeyUsageChecker_new({"PkixServerAuth"})>>}

Init ==
    /\ validator_state = "none"
    /\ fingerprint_by_subject = <<>>
    /\ trust_anchors_by_fingerprint = <<>>
    /\ all_leafs_extension_checkers = <<>>
    /\ call = [c \in {"t1"} |-> IdleCall]
    /\ UnitsUnused

AllIdle == \A c \in DOMAIN call : call[c].pc = "idle"

(***************************************************************************)
(* CertificatePathValidator::new(trusted_anchors_der).                     *)
(***************************************************************************)
New ==
    /\ validator_state = "none"
    /\ \E trusted_anchors_der \in AnchorLists :
         LET r == new(trusted_anchors_der) IN
         /\ validator_state' = IF r.res = "Ok" THEN "ready" ELSE r.res
         /\ fingerprint_by_subject' = r.fingerprint_by_subject
         /\ trust_anchors_by_fingerprint' = r.trust_anchors_by_fingerprint
    /\ UNCHANGED <<all_leafs_extension_checkers, call>>

(***************************************************************************)
(* add_extension_checkers / add_standard_extension_checkers take the       *)
(* validator by value, so no validate call is running.                     *)
(***************************************************************************)
AddExtensionCheckers ==
    /\ validator_state = "ready"
    /\ AllIdle
    /\ \E extension_checkers \in AlwaysOnLists :
         /\ Len(all_leafs_extension_checkers) + Len(extension_checkers) <= MaxCheckers
         /\ all_leafs_extension_checkers' =
                all_leafs_extension_checkers \o extension_checkers
    /\ UNCHANGED <<validator_state, fingerprint_by_subject,
                   trust_anchors_by_fingerprint, call>>

AddStandardExtensionCheckers ==
    /\ validator_state = "ready"
    /\ AllIdle
    /\ Len(all_leafs_extension_checkers) + 3 <= MaxCheckers
    /\ all_leafs_extension_checkers' =
           all_leafs_extension_checkers \o
               <<BasicConstraintsChecker_default, KeyUsageChecker_default,
                 KeyIdentifierChecker_default>>
    /\ UNCHANGED <<validator_state, fingerprint_by_subject,
                   trust_anchors_by_fingerprint, call>>

(***************************************************************************)
(* validate(leaf_certificate_chain_der, at_epoch_seconds,                  *)
(* additional_extension_checkers), one action per step of the function.    *)
(***************************************************************************)
\* variant of the return that goes through one slot shared by all calls
Finish_shared_slot(c, result) == [call["t1"] EXCEPT !.pc = "done", !.result = result]
Finish(c, result) == [call[c] EXCEPT !.pc = "done", !.result = result]

ValidateCall(c) ==
    /\ validator_state = "ready"
    /\ call[c].pc = "idle"
    /\ \E chain_der \in ChainInputs, t \in Times, additional \in PerCallLists :
         call' = [call EXCEPT ![c] =
                     [IdleCall EXCEPT !.pc = "time_filter",
                                      !.leaf_certificate_chain_der = chain_der,
                                      !.at_epoch_seconds = t,
                                      !.additional_extension_checkers = additional]]
    /\ UNCHANGED validator

TimeFilter(c) ==
    /\ call[c].pc = "time_filter"
    /\ LET r == time_filter(call[c].leaf_certificate_chain_der, call[c].at_epoch_seconds) IN
       call' = [call EXCEPT ![c] =
                   IF r.res # "continue" THEN Finish(c, r.res)
                   ELSE [@ EXCEPT !.pc = "leaf_detection",
                                  !.leaf_certificates = r.leaf_certificates]]
    /\ UNCHANGED validator

LeafDetection(c) ==
    /\ call[c].pc = "leaf_detection"
    /\ LET r == leaf_detection(call[c].leaf_certificates) IN
       call' = [call EXCEPT ![c] =
                   IF r # "continue" THEN Finish(c, r)
                   ELSE [@ EXCEPT !.pc = "ordering"]]
    /\ UNCHANGED validator

Ordering(c) ==
    /\ call[c].pc = "ordering"
    /\ LET r == order_chain(call[c].leaf_certificates) IN
       call' = [call EXCEPT ![c] =
                   IF r.res # "continue"
                   THEN [Finish(c, r.res) EXCEPT !.leaf_chain = r.leaf_chain]
                   ELSE [@ EXCEPT !.pc = "attach_trust", !.leaf_chain = r.leaf_chain]]
    /\ UNCHANGED validator

AttachTrust(c) ==
    /\ call[c].pc = "attach_trust"
    /\ LET r == attach_trust(call[c].leaf_chain, fingerprint_by_subject,
                             trust_anchors_by_fingerprint) IN
       call' = [call EXCEPT ![c] =
                   IF r.res # "continue" THEN Finish(c, r.res)
                   ELSE [@ EXCEPT !.pc = "anchor_time",
                                  !.trust_how = r.how, !.trust_pos = r.pos,
                                  !.chain_with_trust = r.chain_with_trust]]
    /\ UNCHANGED validator

AnchorTimeCheck(c) ==
    /\ call[c].pc = "anchor_time"
    /\ LET r == anchor_time_check(call[c].chain_with_trust, call[c].at_epoch_seconds) IN
       call' = [call EXCEPT ![c] =
                   IF r # "continue" THEN Finish(c, r)
                   ELSE [@ EXCEPT !.pc = "signatures"]]
    /\ UNCHANGED validator

VerifySignatures(c) ==
    /\ call[c].pc = "signatures"
    /\ LET r == verify_signatures(call[c].chain_with_trust) IN
       call' = [call EXCEPT ![c] =
                   IF r # "continue" THEN Finish(c, r)
                   ELSE [@ EXCEPT !.pc = "critical_set"]]
    /\ UNCHANGED validator

CriticalSet(c) ==
    /\ call[c].pc = "critical_set"
    /\ call' = [call EXCEPT ![c] =
                   [@ EXCEPT !.pc = "checkers",
                             !.critical_extension_oids =
                                 collect_critical_extension_oids(call[c].chain_with_trust)]]
    /\ UNCHANGED validator

\* variant in which the checkers of the thread's earlier call stay registered
checkers_of_with_earlier(c) ==
    all_leafs_extension_checkers
        \o (IF IsSome(call[c].earlier)
            THEN Unwrap(call[c].earlier).additional_extension_checkers ELSE <<>>)
        \o call[c].additional_extension_checkers
\* variant that runs the per-call checkers ahead of the always-on ones
checkers_of_per_call_first(c) ==
    call[c].additional_extension_checkers \o all_leafs_extension_checkers
\* the checkers this call runs, in the order it runs them
checkers_of(c) == all_leafs_extension_checkers \o call[c].additional_extension_checkers

RunChecker(c) ==
    /\ call[c].pc = "checkers"
    /\ Len(call[c].invoked) < Len(checkers_of(c))
    /\ LET extension_checker == checkers_of(c)[Len(call[c].invoked) + 1]
           r == check_extensions(extension_checker, call[c].chain_with_trust,
                                 call[c].critical_extension_oids)
           entry == [checker |-> extension_checker, res |-> r.res,
                     before |-> call[c].critical_extension_oids,
                     after |-> r.unresolved_extensions] IN
       call' = [call EXCEPT ![c] =
                   [@ EXCEPT !.pc = IF r.res = "Ok" THEN "checkers" ELSE "done",
                             !.result = IF r.res = "Ok" THEN "none" ELSE r.res,
                             !.critical_extension_oids = r.unresolved_extensions,
                             !.invoked = Append(@, entry)]]
    /\ UNCHANGED validator

Closure(c) ==
    /\ call[c].pc = "checkers"
    /\ Len(call[c].invoked) = Len(checkers_of(c))
    /\ call' = [call EXCEPT ![c] = Finish(c, closure(call[c].critical_extension_oids))]
    /\ UNCHANGED validator

\* the call has returned (or aborted); the thread may call again
ValidateReturn(c) ==
    /\ call[c].pc = "done"
    /\ call' = [call EXCEPT ![c] = IdleCall]
    /\ UNCHANGED validator

Next ==
    \/ New /\ UNCHANGED units
    \/ AddExtensionCheckers /\ UNCHANGED units
    \/ AddStandardExtensionCheckers /\ UNCHANGED units
    \/ \E c \in DOMAIN call : ValidateCall(c) /\ UNCHANGED units
    \/ \E c \in DOMAIN call : TimeFilter(c) /\ UNCHANGED units
    \/ \E c \in DOMAIN call : LeafDetection(c) /\ UNCHANGED units
    \/ \E c \in DOMAIN call : Ordering(c) /\ UNCHANGED units
    \/ \E c \in DOMAIN call : AttachTrust(c) /\ UNCHANGED units
    \/ \E c \in DOMAIN call : AnchorTimeCheck(c) /\ UNCHANGED units
    \/ \E c \in DOMAIN call : VerifySignatures(c) /\ UNCHANGED units
    \/ \E c \in DOMAIN call : CriticalSet(c) /\ UNCHANGED units
    \/ \E c \in DOMAIN call : RunChecker(c) /\ UNCHANGED units
    \/ \E c \in DOMAIN call : Closure(c) /\ UNCHANGED units
    \/ \E c \in DOMAIN call : ValidateReturn(c) /\ UNCHANGED units

Spec == Init /\ [][Next]_vars

(***************************************************************************)
(* Two threads share one validator (validate takes &self), and one thread  *)
(* calls validate again after a call has returned.  The calls draw their   *)
(* arguments from a short list.                                            *)
(***************************************************************************)
ShortChains == {<<"LeafEku">>, <<"Leaf", "SubP0">>, <<"LeafBadSig">>, <<Garbage>>}
ShortTimes == {1}
ShortPerCallLists ==
    {<<>>,
     <<CertificatePoliciesChecker_new({"CabfDomainValidated"}),
       ExtendedKeyUsageChecker_new({"PkixServerAuth"}),
       KeyUsageChecker_new({}, {})>>}
ValidateCallShort(c) ==
    /\ validator_state = "ready"
    /\ call[c].pc = "idle"
    /\ \E chain_der \in ShortChains, t \in ShortTimes, additional \in ShortPerCallLists :
         call' = [call EXCEPT ![c] =
                     [@ EXCEPT !.pc = "time_filter",
                               !.leaf_certificate_chain_der = chain_der,
                               !.at_epoch_seconds = t,
                               !.additional_extension_checkers = additional]]
    /\ UNCHANGED validator
\* the call has returned; the thread keeps what it called with and what it got
ValidateReturnKept(c) ==
    /\ call[c].pc = "done"
    /\ call' = [call EXCEPT ![c] =
                   [IdleCall EXCEPT !.earlier =
                       Some([leaf_certificate_chain_der |-> call[c].leaf_certificate_chain_der,
                             at_epoch_seconds |-> call[c].at_epoch_seconds,
                             additional_extension_checkers |->
                                 call[c].additional_extension_checkers,
                             result |-> call[c].result])]]
    /\ UNCHANGED validator
ConcInit ==
    /\ validator_state = "none"
    /\ fingerprint_by_subject = <<>>
    /\ trust_anchors_by_fingerprint = <<>>
    /\ all_leafs_extension_checkers = <<>>
    /\ call = [c \in {"t1", "t2"} |-> IdleCall]
    /\ UnitsUnused
ConcNext ==
    \/ New /\ UNCHANGED units
    \/ AddExtensionCheckers /\ UNCHANGED units
    \/ AddStandardExtensionCheckers /\ UNCHANGED units
    \/ \E c \in DOMAIN call : ValidateCallShort(c) /\ UNCHANGED units
    \/ \E c \in DOMAIN call : TimeFilter(c) /\ UNCHANGED units
    \/ \E c \in DOMAIN call : LeafDetection(c) /\ UNCHANGED units
    \/ \E c \in DOMAIN call : Ordering(c) /\ UNCHANGED units
    \/ \E c \in DOMAIN call : AttachTrust(c) /\ UNCHANGED units
    \/ \E c \in DOMAIN call : AnchorTimeCheck(c) /\ UNCHANGED units
    \/ \E c \in DOMAIN call : VerifySignatures(c) /\ UNCHANGED units
    \/ \E c \in DOMAIN call : CriticalSet(c) /\ UNCHANGED units
    \/ \E c \in DOMAIN call : RunChecker(c) /\ UNCHANGED units
    \/ \E c \in DOMAIN call : Closure(c) /\ UNCHANGED units
    \/ \E c \in DOMAIN call : ValidateReturn(c) /\ UNCHANGED units
SpecConc == ConcInit /\ [][ConcNext]_vars

(***************************************************************************)
(* A validator whose anchor carries a path length, called with chains of   *)
(* one and of two certificates.                                            *)
(***************************************************************************)
PathLenAnchorLists == {<<"RootP0">>, <<"Root">>}
PathLenChains ==
    {<<"Leaf", "Sub">>, <<"Sub", "Leaf">>, <<"Leaf", "SubP0">>, <<"LeafOther">>, <<"Leaf">>}
NewPathLen ==
    /\ validator_state = "none"
    /\ \E trusted_anchors_der \in PathLenAnchorLists :
         LET r == new(trusted_anchors_der) IN
         /\ validator_state' = IF r.res = "Ok" THEN "ready" ELSE r.res
         /\ fingerprint_by_subject' = r.fingerprint_by_subject
         /\ trust_anchors_by_fingerprint' = r.trust_anchors_by_fingerprint
    /\ UNCHANGED <<all_leafs_extension_checkers, call>>
ValidateCallPathLen(c) ==
    /\ validator_state = "ready"
    /\ call[c].pc = "idle"
    /\ \E chain_der \in PathLenChains, t \in Times :
         call' = [call EXCEPT ![c] =
                     [IdleCall EXCEPT !.pc = "time_filter",
                                      !.leaf_certificate_chain_der = chain_der,
                                      !.at_epoch_seconds = t]]
    /\ UNCHANGED validator
PathLenNext ==
    \/ NewPathLen /\ UNCHANGED units
    \/ AddStandardExtensionCheckers /\ UNCHANGED units
    \/ \E c \in DOMAIN call : ValidateCallPathLen(c) /\ UNCHANGED units
    \/ \E c \in DOMAIN call : TimeFilter(c) /\ UNCHANGED units
    \/ \E c \in DOMAIN call : LeafDetection(c) /\ UNCHANGED units
    \/ \E c \in DOMAIN call : Ordering(c) /\ UNCHANGED units
    \/ \E c \in DOMAIN call : AttachTrust(c) /\ UNCHANGED units
    \/ \E c \in DOMAIN call : AnchorTimeCheck(c) /\ UNCHANGED units
    \/ \E c \in DOMAIN call : VerifySignatures(c) /\ UNCHANGED units
    \/ \E c \in DOMAIN call : CriticalSet(c) /\ UNCHANGED units
    \/ \E c \in DOMAIN call : RunChecker(c) /\ UNCHANGED units
    \/ \E c \in DOMAIN call : Closure(c) /\ UNCHANGED units
    \/ \E c \in DOMAIN call : ValidateReturn(c) /\ UNCHANGED units
SpecPathLen == Init /\ [][PathLenNext]_vars

(***************************************************************************)
(* A validator with one anchor, called with one or two per-call checkers   *)
(* drawn from every kind and several requirement sets.                     *)
(***************************************************************************)
CheckerAnchorLists == {<<"Root">>, <<"RootAlt">>}
CheckerChains ==
    {<<"Leaf", "Sub">>, <<"Sub", "Leaf">>, <<"LeafOther">>, <<"LeafEku">>, <<"Leaf">>,
     <<"LeafKid">>}
CheckerChoices ==
    {KeyUsageChecker_default,
     KeyUsageChecker_new({}, {}),
     KeyUsageChecker_new({"KeyEncipherment"}, {"CRLSign"}),
     KeyIdentifierChecker_default,
     CertificatePoliciesChecker_new({}),
     CertificatePoliciesChecker_new({"CabfDomainValidated"}),
     CertificatePoliciesChecker_with_issuer_policies({}, {"CabfDomainValidated"}),
     ExtendedKeyUsageChecker_new({"PkixServerAuth"}),
     ExtendedKeyUsageChecker_new({"PkixServerAuth", "PkixClientAuth"}),
     ExtendedKeyUsageChecker_with_issuer_ekus({}, {"PkixServerAuth"})}
CheckerLists ==
    {<<first>> : first \in CheckerChoices}
        \cup {<<first, second>> : first \in CheckerChoices, second \in CheckerChoices}
NewCheckers ==
    /\ validator_state = "none"
    /\ \E trusted_anchors_der \in CheckerAnchorLists :
         LET r == new(trusted_anchors_der) IN
         /\ validator_state' = IF r.res = "Ok" THEN "ready" ELSE r.res
         /\ fingerprint_by_subject' = r.fingerprint_by_subject
         /\ trust_anchors_by_fingerprint' = r.trust_anchors_by_fingerprint
    /\ UNCHANGED <<all_leafs_extension_checkers, call>>
ValidateCallCheckers(c) ==
    /\ validator_state = "ready"
    /\ call[c].pc = "idle"
    /\ \E chain_der \in CheckerChains, t \in Times, extension_checkers \in CheckerLists :
         call' = [call EXCEPT ![c] =
                     [IdleCall EXCEPT !.pc = "time_filter",
                                      !.leaf_certificate_chain_der = chain_der,
                                      !.at_epoch_seconds = t,
                                      !.additional_extension_checkers =
                                          extension_checkers]]
    /\ UNCHANGED validator
CheckersNext ==
    \/ NewCheckers /\ UNCHANGED units
    \/ AddStandardExtensionCheckers /\ UNCHANGED units
    \/ \E c \in DOMAIN call : ValidateCallCheckers(c) /\ UNCHANGED units
    \/ \E c \in DOMAIN call : TimeFilter(c) /\ UNCHANGED units
    \/ \E c \in DOMAIN call : LeafDetection(c) /\ UNCHANGED units
    \/ \E c \in DOMAIN call : Ordering(c) /\ UNCHANGED units
    \/ \E c \in DOMAIN call : AttachTrust(c) /\ UNCHANGED units
    \/ \E c \in DOMAIN call : AnchorTimeCheck(c) /\ UNCHANGED units
    \/ \E c \in DOMAIN call : VerifySignatures(c) /\ UNCHANGED units
    \/ \E c \in DOMAIN call : CriticalSet(c) /\ UNCHANGED units
    \/ \E c \in DOMAIN call : RunChecker(c) /\ UNCHANGED units
    \/ \E c \in DOMAIN call : Closure(c) /\ UNCHANGED units
    \/ \E c \in DOMAIN call : ValidateReturn(c) /\ UNCHANGED units
SpecCheckers == Init /\ [][CheckersNext]_vars

(***************************************************************************)
(* A validator called with every chain over a leaf, a CA with the leaf's   *)
(* DN, and the CAs above them.                                             *)
(***************************************************************************)
OrderDers == {"LeafEku", "CaE", "Root", "Sub", "Leaf"}
OrderChains == UNION {[1..n -> OrderDers] : n \in 1..MaxChain}
ValidateCallOrder(c) ==
    /\ validator_state = "ready"
    /\ call[c].pc = "idle"
    /\ \E chain_der \in OrderChains, t \in Times :
         call' = [call EXCEPT ![c] =
                     [IdleCall EXCEPT !.pc = "time_filter",
                                      !.leaf_certificate_chain_der = chain_der,
                                      !.at_epoch_seconds = t]]
    /\ UNCHANGED validator
OrderNext ==
    \/ NewCheckers /\ UNCHANGED units
    \/ AddStandardExtensionCheckers /\ UNCHANGED units
    \/ \E c \in DOMAIN call : ValidateCallOrder(c) /\ UNCHANGED units
    \/ \E c \in DOMAIN call : TimeFilter(c) /\ UNCHANGED units
    \/ \E c \in DOMAIN call : LeafDetection(c) /\ UNCHANGED units
    \/ \E c \in DOMAIN call : Ordering(c) /\ UNCHANGED units
    \/ \E c \in DOMAIN call : AttachTrust(c) /\ UNCHANGED units
    \/ \E c \in DOMAIN call : AnchorTimeCheck(c) /\ UNCHANGED units
    \/ \E c \in DOMAIN call : VerifySignatures(c) /\ UNCHANGED units
    \/ \E c \in DOMAIN call : CriticalSet(c) /\ UNCHANGED units
    \/ \E c \in DOMAIN call : RunChecker(c) /\ UNCHANGED units
    \/ \E c \in DOMAIN call : Closure(c) /\ UNCHANGED units
    \/ \E c \in DOMAIN call : ValidateReturn(c) /\ UNCHANGED units
SpecOrder == Init /\ [][OrderNext]_vars

LaterNext ==
    \/ New /\ UNCHANGED units
    \/ AddExtensionCheckers /\ UNCHANGED units
    \/ AddStandardExtensionCheckers /\ UNCHANGED units
    \/ \E c \in DOMAIN call : ValidateCallShort(c) /\ UNCHANGED units
    \/ \E c \in DOMAIN call : TimeFilter(c) /\ UNCHANGED units
    \/ \E c \in DOMAIN call : LeafDetection(c) /\ UNCHANGED units
    \/ \E c \in DOMAIN call : Ordering(c) /\ UNCHANGED units
    \/ \E c \in DOMAIN call : AttachTrust(c) /\ UNCHANGED units
    \/ \E c \in DOMAIN call : AnchorTimeCheck(c) /\ UNCHANGED units
    \/ \E c \in DOMAIN call : VerifySignatures(c) /\ UNCHANGED units
    \/ \E c \in DOMAIN call : CriticalSet(c) /\ UNCHANGED units
    \/ \E c \in DOMAIN call : RunChecker(c) /\ UNCHANGED units
    \/ \E c \in DOMAIN call : Closure(c) /\ UNCHANGED units
    \/ \E c \in DOMAIN call : ValidateReturnKept(c) /\ UNCHANGED units
SpecLater == Init /\ [][LaterNext]_vars

(***************************************************************************)
(* Vocabulary of the properties.                                           *)
(***************************************************************************)
Done(c) == call[c].pc = "done"
Returned(c) == Done(c) /\ call[c].result # "panic"
\* the registered trust anchors
RegisteredAnchors == Range(trust_anchors_by_fingerprint)
IsRegisteredAnchor(cp) == fingerprint(cp) \in DOMAIN trust_anchors_by_fingerprint
\* closed-interval validity, spelled out on the certificate's two dates
ValidAt(cp, t) == Certs[cp].not_before <= t /\ t <= Certs[cp].not_after
\* the signature of cp verifies under the public key of issuer
SignedBy(cp, issuer) ==
    /\ Certs[cp].sig_oid \in KnownSignatureOids
    /\ Certs[cp].signer = Certs[issuer].spki
\* the OIDs the checkers invoked so far have removed from the pending set
RemovedByCheckers(c) ==
    UNION {call[c].invoked[i].before \ call[c].invoked[i].after :
              i \in DOMAIN call[c].invoked}
\* positions (1-based) of the ordered chain that lie below the trust anchor:
\* before the anchor found in the chain, or up to the certificate the
\* appended anchor issued
BelowAnchor(c) ==
    IF call[c].trust_how = "fingerprint" THEN 1..(call[c].trust_pos - 1)
    ELSE IF call[c].trust_how = "issuer" THEN 1..call[c].trust_pos
    ELSE {}

(***************************************************************************)
(* C1: validate never returns success while a critical extension OID       *)
(* carried by a certificate below the trust anchor (leaf up to, excluding, *)
(* the anchor) has not been removed by an invoked checker, both when the   *)
(* anchor was appended and when it was found inside the supplied chain.    *)
(***************************************************************************)
C1_NoSuccessWithUnresolvedCritical ==
    \A c \in DOMAIN call :
        (Done(c) /\ call[c].result = "Ok") =>
            \A i \in BelowAnchor(c) :
                Certs[call[c].leaf_chain[i]].critical \subseteq RemovedByCheckers(c)

(***************************************************************************)
(* C2: whenever validate returns success there is a chain from the leaf    *)
(* to a registered trust anchor, over the supplied certificates and the    *)
(* anchors, in which every certificate below the anchor has a signature    *)
(* that verifies under the key of the next one.                            *)
(***************************************************************************)
RECURSIVE HasVerifiedPath(_, _, _)
HasVerifiedPath(cp, pool, depth) ==
    \/ IsRegisteredAnchor(cp)
    \/ /\ depth > 0
       /\ \E issuer \in pool :
              SignedBy(cp, issuer) /\ HasVerifiedPath(issuer, pool, depth - 1)
C2_SuccessImpliesVerifiedPath ==
    \A c \in DOMAIN call :
        (Done(c) /\ call[c].result = "Ok") =>
            HasVerifiedPath(Head(leafs_of(call[c].leaf_certificates)),
                            Range(call[c].leaf_certificates) \cup RegisteredAnchors,
                            MaxChain + 1)

(***************************************************************************)
(* C3: a chain of exactly one certificate that is itself a registered      *)
(* trust anchor and is valid at the query time is accepted.                *)
(***************************************************************************)
C3_SingleAnchorChainAccepted ==
    \A c \in DOMAIN call :
        LET chain_der == call[c].leaf_certificate_chain_der IN
        (/\ Done(c)
         /\ Len(chain_der) = 1
         /\ chain_der[1] \in DOMAIN Certs
         /\ IsRegisteredAnchor(chain_der[1])
         /\ ValidAt(chain_der[1], call[c].at_epoch_seconds))
        => call[c].result = "Ok"

(***************************************************************************)
(* C4: when the ordered chain holds a registered trust anchor at a         *)
(* position after the leaf, the assembled chain is the ordered chain up    *)
(* to and including that certificate, the anchor last, and on success the  *)
(* certificate right below it verifies under the anchor's key.             *)
(***************************************************************************)
C4_AnchorInChainIsUsed ==
    \A c \in DOMAIN call :
        (call[c].trust_how = "fingerprint" /\ call[c].trust_pos >= 2) =>
            /\ call[c].chain_with_trust =
                   SubSeq(call[c].leaf_chain, 1, call[c].trust_pos)
            /\ (Done(c) /\ call[c].result = "Ok") =>
                   SignedBy(call[c].leaf_chain[call[c].trust_pos - 1],
                            call[c].leaf_chain[call[c].trust_pos])

(***************************************************************************)
(* C5 (as claimed): validate gives the same outcome for every permutation  *)
(* of the same collection of chain certificates.                           *)
(***************************************************************************)
PermutationsOf(seq) ==
    {[i \in 1..Len(seq) |-> seq[f[i]]] : f \in Permutations(1..Len(seq))}
AllDecode(chain_der) == \A i \in DOMAIN chain_der : chain_der[i] \in DOMAIN Certs
DistinctSubjects(chain_der) ==
    \A i, j \in DOMAIN chain_der :
        i # j => Certs[chain_der[i]].subject # Certs[chain_der[j]].subject
SameOutcomeForPermutations(c) ==
    \A permuted \in PermutationsOf(call[c].leaf_certificate_chain_der) :
        validate_outcome(fingerprint_by_subject, trust_anchors_by_fingerprint,
                         all_leafs_extension_checkers, permuted,
                         call[c].at_epoch_seconds,
                         call[c].additional_extension_checkers) = call[c].result
StandardCheckers ==
    <<[kind |-> "BasicConstraintsChecker", leaf |-> {}, issuer |-> {}],
      [kind |-> "KeyUsageChecker", leaf |-> {"DigitalSignature"},
       issuer |-> {"KeyCertSign"}],
      [kind |-> "KeyIdentifierChecker", leaf |-> {}, issuer |-> {}]>>
CaWithPathLen(cp, required) ==
    /\ Certs[cp].basic_constraints # <<>>
    /\ Certs[cp].basic_constraints[1].ca
    /\ \/ Certs[cp].basic_constraints[1].path_len = <<>>
       \/ Certs[cp].basic_constraints[1].path_len[1] >= required
HasKeyUsage(cp, flag) ==
    Certs[cp].key_usage # <<>> /\ flag \in Certs[cp].key_usage[1]
Issued(issuer, cp) ==
    /\ Certs[cp].issuer = Certs[issuer].subject
    /\ SignedBy(cp, issuer)
    /\ Certs[cp].aki # <<>> /\ Certs[cp].aki = Certs[issuer].ski
GoodThreeChain(leaf, sub, anchor, t) ==
    /\ ValidAt(leaf, t) /\ ValidAt(sub, t) /\ ValidAt(anchor, t)
    /\ Issued(sub, leaf) /\ Issued(anchor, sub)
    /\ Certs[leaf].basic_constraints = <<>> \/ ~Certs[leaf].basic_constraints[1].ca
    /\ CaWithPathLen(sub, 1) /\ CaWithPathLen(anchor, 2)
    /\ HasKeyUsage(leaf, "DigitalSignature")
    /\ HasKeyUsage(sub, "KeyCertSign") /\ HasKeyUsage(anchor, "KeyCertSign")
C6_StandardChainAccepted ==
    \A c \in DOMAIN call :
        (/\ Done(c)
         /\ all_leafs_extension_checkers = StandardCheckers
         /\ call[c].additional_extension_checkers = <<>>)
        => \A leaf, sub, anchor \in DOMAIN Certs :
               (/\ call[c].leaf_certificate_chain_der \in PermutationsOf(<<leaf, sub>>)
                /\ Certs[sub].issuer \in DOMAIN fingerprint_by_subject
                /\ fingerprint_by_subject[Certs[sub].issuer] = fingerprint(anchor)
                /\ GoodThreeChain(leaf, sub, anchor, call[c].at_epoch_seconds))
               => call[c].result = "Ok"

(***************************************************************************)
(* C7: validate returns success only if every supplied certificate and     *)
(* the selected trust anchor satisfy not_before <= at_epoch_seconds <=     *)
(* not_after, and when a supplied certificate violates this the error      *)
(* kind it returns is InvalidLifeSpan, whatever the leaf count, the        *)
(* order, the trust or the signatures.                                     *)
(***************************************************************************)
SelectedAnchor(c) ==
    IF call[c].trust_how = "fingerprint" THEN call[c].leaf_chain[call[c].trust_pos]
    ELSE call[c].chain_with_trust[Len(call[c].chain_with_trust)]
C7_LifeSpan ==
    \A c \in DOMAIN call :
        LET chain_der == call[c].leaf_certificate_chain_der
            t == call[c].at_epoch_seconds IN
        /\ (Done(c) /\ call[c].result = "Ok") =>
               /\ \A i \in DOMAIN chain_der :
                      chain_der[i] \in DOMAIN Certs /\ ValidAt(chain_der[i], t)
               /\ ValidAt(SelectedAnchor(c), t)
        /\ (/\ Done(c)
            /\ Returned(c) \/ AllDecode(chain_der)
            /\ \E i \in DOMAIN chain_der :
                   chain_der[i] \in DOMAIN Certs /\ ~ValidAt(chain_der[i], t))
           => call[c].result = "InvalidLifeSpan"
\* an expired certificate behind two valid leafs: InvalidLifeSpan, not NotOneLeaf
C7_Witness ==
    \E c \in DOMAIN call :
        /\ Done(c) /\ call[c].result = "InvalidLifeSpan"
        /\ call[c].leaf_certificate_chain_der = <<"Leaf", "LeafEku", "Root">>
        /\ call[c].at_epoch_seconds = 2

(***************************************************************************)
(* C8: a supplied chain entry that the DER codec rejects makes validate    *)
(* return a CertificateValidationError value to the caller.                *)
(***************************************************************************)
CertificateValidationErrorKinds ==
    {"CertificateParsingError", "InvalidSignature", "UnknownSignature",
     "InvalidLifeSpan", "NotOneLeaf", "NotTrusted", "UnhandledCriticalExtensions",
     "ExtensionHandlingFailure"}
C8_UndecodableEntryIsReturnedError ==
    \A c \in DOMAIN call :
        (/\ Done(c)
         /\ \E i \in DOMAIN call[c].leaf_certificate_chain_der :
                call[c].leaf_certificate_chain_der[i] \notin DOMAIN Certs)
        => call[c].result \in CertificateValidationErrorKinds

(***************************************************************************)
(* C9: when the time filter passed, validate returns NotOneLeaf if the     *)
(* number of supplied certificates without BasicConstraints or with        *)
(* ca = false is zero or more than one, and goes on to order the chain     *)
(* only when it is exactly one.                                            *)
(***************************************************************************)
NumLeafs(chain_der) ==
    Cardinality({i \in DOMAIN chain_der :
                    \/ Certs[chain_der[i]].basic_constraints = <<>>
                    \/ ~Certs[chain_der[i]].basic_constraints[1].ca})
TimeFilterPassed(c) ==
    \A i \in DOMAIN call[c].leaf_certificate_chain_der :
        /\ call[c].leaf_certificate_chain_der[i] \in DOMAIN Certs
        /\ ValidAt(call[c].leaf_certificate_chain_der[i], call[c].at_epoch_seconds)
C9_ExactlyOneLeaf ==
    \A c \in DOMAIN call :
        LET n == NumLeafs(call[c].leaf_certificate_chain_der) IN
        (TimeFilterPassed(c) /\ call[c].pc \notin {"idle", "time_filter", "leaf_detection"}) =>
            /\ n # 1 => (Done(c) /\ call[c].result = "NotOneLeaf"
                         /\ call[c].leaf_chain = <<>>)
            /\ n = 1 => (call[c].pc = "ordering" \/ call[c].leaf_chain # <<>>)
\* two leafs that passed the time filter are turned down before ordering
C9_Witness ==
    \E c \in DOMAIN call :
        /\ Done(c) /\ call[c].result = "NotOneLeaf"
        /\ call[c].leaf_certificate_chain_der = <<"Leaf", "Sub", "LeafBadSig">>
        /\ call[c].at_epoch_seconds = 1
        /\ call[c].leaf_chain = <<>>

(***************************************************************************)
(* C10: a built-in checker that returns an error leaves the pending        *)
(* critical OID set as it received it; a checker that returns success      *)
(* removes exactly the OIDs of the extensions it checks.                   *)
(***************************************************************************)
CheckedOids(kind) ==
    CASE kind = "BasicConstraintsChecker" -> {<<2, 5, 29, 19>>}
      [] kind = "KeyUsageChecker" -> {<<2, 5, 29, 15>>}
      [] kind = "KeyIdentifierChecker" -> {<<2, 5, 29, 35>>, <<2, 5, 29, 14>>}
      [] kind = "CertificatePoliciesChecker" -> {<<2, 5, 29, 32>>}
      [] kind = "ExtendedKeyUsageChecker" -> {<<2, 5, 29, 37>>}
C10_CheckerFrame ==
    \A c \in DOMAIN call :
        \A i \in DOMAIN call[c].invoked :
            LET e == call[c].invoked[i] IN
            /\ e.res # "Ok" => e.after = e.before
            /\ e.res = "Ok" => e.after = e.before \ CheckedOids(e.checker.kind)
\* a checker failed while the OID of its own extension was pending
C10_Witness ==
    \E c \in DOMAIN call :
        \E i \in DOMAIN call[c].invoked :
            LET e == call[c].invoked[i] IN
            /\ e.res = "ExtensionHandlingFailure"
            /\ e.checker.kind = "KeyUsageChecker"
            /\ <<2, 5, 29, 15>> \in e.before

(***************************************************************************)
(*                Certificate building: Extensions and TBS                 *)
(***************************************************************************)
MaxExtensions == 2

(***************************************************************************)
(* The DER codec (rasn::der).  Encoded bytes are kept as a wrapper round   *)
(* the value they encode; bytes that no encoder produced do not decode.    *)
(***************************************************************************)
der_encode(value) == [der |-> value]
UndecodableBytes == [junk |-> "bytes"]
der_decode(bytes) == IF "der" \in DOMAIN bytes THEN Some(bytes.der) ELSE None

(***************************************************************************)
(* Typed extension values and their rasn forms.                            *)
(***************************************************************************)
BasicConstraints_to_rasn_type(self) ==
    [ca |-> self.ca, path_len_constraint |-> self.path_len]
BasicConstraints_from_rasn_type(basic_constraints) ==
    [ca |-> basic_constraints.ca, path_len |-> basic_constraints.path_len_constraint]

MSB_ORDERED_KUS ==
    <<"DigitalSignature", "NonRepudiation", "KeyEncipherment", "DataEncipherment",
      "KeyAgreement", "KeyCertSign", "CRLSign", "EncipherOnly", "DecipherOnly">>
RECURSIVE pop_trailing_false(_)
pop_trailing_false(bv) ==
    IF Len(bv) > 0 /\ ~bv[Len(bv)] THEN pop_trailing_false(SubSeq(bv, 1, Len(bv) - 1))
    ELSE bv
KeyUsage_to_rasn_type(key_usages) ==
    pop_trailing_false([i \in 1..Len(MSB_ORDERED_KUS) |->
                           MSB_ORDERED_KUS[i] \in Range(key_usages)])

\* the registry of ExtendedKeyUsage (three of its entries), both directions
PkixServerAuth == [name |-> "PkixServerAuth", oid |-> <<>>]
PkixClientAuth == [name |-> "PkixClientAuth", oid |-> <<>>]
AnyExtendedKeyUsage == [name |-> "AnyExtendedKeyUsage", oid |-> <<>>]
Custom(oid) == [name |-> "Custom", oid |-> oid]
oid_by_enum ==
    (AnyExtendedKeyUsage :> <<2, 5, 29, 37, 0>>)
 @@ (PkixServerAuth :> <<1, 3, 6, 1, 5, 5, 7, 3, 1>>)
 @@ (PkixClientAuth :> <<1, 3, 6, 1, 5, 5, 7, 3, 2>>)
enum_by_oid ==
    (<<2, 5, 29, 37, 0>> :> AnyExtendedKeyUsage)
 @@ (<<1, 3, 6, 1, 5, 5, 7, 3, 1>> :> PkixServerAuth)
 @@ (<<1, 3, 6, 1, 5, 5, 7, 3, 2>> :> PkixClientAuth)
\* value() unwraps the registry entry: None stands for the failed unwrap
ExtendedKeyUsage_value(self) ==
    IF self \in DOMAIN oid_by_enum THEN Some(oid_by_enum[self]) ELSE None
ExtendedKeyUsage_from_oid(oid) ==
    IF oid \in DOMAIN enum_by_oid THEN enum_by_oid[oid] ELSE Custom(oid)
ExtendedKeyUsage_to_rasn_type(ekus) ==
    IF \E i \in DOMAIN ekus : ~IsSome(ExtendedKeyUsage_value(ekus[i])) THEN None
    ELSE Some([i \in DOMAIN ekus |-> Unwrap(ExtendedKeyUsage_value(ekus[i]))])

\* WellKnownGeneralName: (kind, value) pairs; IpAddr parsing and printing
ip_address_parse(ip_address) ==
    IF ip_address = "10.0.0.1" THEN Some(<<10, 0, 0, 1>>) ELSE None
ip_address_to_string(octets) ==
    IF octets = <<10, 0, 0, 1>> THEN "10.0.0.1" ELSE "other"
WellKnownGeneralName_to_rasn_type(self, value) ==
    CASE self = "DnsName" -> Some([choice |-> "DnsName", value |-> value])
      [] self = "Uri" -> Some([choice |-> "Uri", value |-> value])
      [] self = "IpAddress" ->
            IF IsSome(ip_address_parse(value))
            THEN Some([choice |-> "IpAddress", value |-> Unwrap(ip_address_parse(value))])
            ELSE None
WellKnownGeneralName_from_rasn_type(general_name) ==
    CASE general_name.choice = "DnsName" -> <<"DnsName", general_name.value>>
      [] general_name.choice = "Uri" -> <<"Uri", general_name.value>>
      [] general_name.choice = "IpAddress" ->
            <<"IpAddress", ip_address_to_string(general_name.value)>>
AlternativeName_OID_SUBJECT_AN == <<2, 5, 29, 17>>
AlternativeName_OID_ISSUER_AN == <<2, 5, 29, 18>>
AlternativeName_to_rasn_type(alternative_names) ==
    IF \E i \in DOMAIN alternative_names :
           ~IsSome(WellKnownGeneralName_to_rasn_type(alternative_names[i][1],
                                                     alternative_names[i][2]))
    THEN None
    ELSE Some([i \in DOMAIN alternative_names |->
                  Unwrap(WellKnownGeneralName_to_rasn_type(alternative_names[i][1],
                                                           alternative_names[i][2]))])
AlternativeName_from_rasn_type(general_names) ==
    [i \in DOMAIN general_names |-> WellKnownGeneralName_from_rasn_type(general_names[i])]

(***************************************************************************)
(* Extensions: every add_* pushes one Extension; a list argument that is   *)
(* empty adds nothing.  The result is the new Vec, or a panic.             *)
(***************************************************************************)
Added(exts) == [res |-> "Ok", extensions |-> exts]
Panicked(exts) == [res |-> "panic", extensions |-> exts]
add_extension(exts, oid, critical, rasn_type) ==
    Append(exts, [extn_id |-> oid, critical |-> critical,
                  extn_value |-> der_encode(rasn_type)])
add_basic_constraints(exts, basic_constraints) ==
    Added(add_extension(exts, BasicConstraints_OID, is_ca(basic_constraints),
                        BasicConstraints_to_rasn_type(basic_constraints)))
add_key_usage(exts, key_usages) ==
    IF key_usages # <<>>
    THEN Added(add_extension(exts, KeyUsage_OID, TRUE, KeyUsage_to_rasn_type(key_usages)))
    ELSE Added(exts)
add_extended_key_usage(exts, extended_key_usages) ==
    IF extended_key_usages # <<>>
    THEN LET rasn_type == ExtendedKeyUsage_to_rasn_type(extended_key_usages) IN
         IF IsSome(rasn_type)
         THEN Added(add_extension(exts, ExtendedKeyUsage_OID, FALSE, Unwrap(rasn_type)))
         ELSE Panicked(exts)
    ELSE Added(exts)
add_subject_alternative_name(exts, subject_alternative_names, subject_dn_empty) ==
    IF subject_alternative_names # <<>>
    THEN LET rasn_type == AlternativeName_to_rasn_type(subject_alternative_names) IN
         IF IsSome(rasn_type)
         THEN Added(add_extension(exts, AlternativeName_OID_SUBJECT_AN, subject_dn_empty,
                                  Unwrap(rasn_type)))
         ELSE Panicked(exts)
    ELSE Added(exts)
add_issuer_alternative_name(exts, issuer_alternative_names) ==
    IF issuer_alternative_names # <<>>
    THEN LET rasn_type == AlternativeName_to_rasn_type(issuer_alternative_names) IN
         IF IsSome(rasn_type)
         THEN Added(add_extension(exts, AlternativeName_OID_ISSUER_AN, FALSE,
                                  Unwrap(rasn_type)))
         ELSE Panicked(exts)
    ELSE Added(exts)
Extensions_to_rasn_type(exts) == IF exts = <<>> THEN None ELSE Some(exts)

(***************************************************************************)
(* DistinguishedName: a Vec of RDNs, each a Vec of (name, value).          *)
(***************************************************************************)
DistinguishedName_is_empty(self) ==
    self = <<>> \/ ~(\E i \in DOMAIN self : self[i] # <<>>)
DistinguishedName_as_rasn_type(self) == [rdn_sequence |-> self]

(***************************************************************************)
(* NoSignatureTbsCertificate: the DER of a TbsCertificate whose signature  *)
(* field holds the id-alg-noSignature placeholder.                         *)
(***************************************************************************)
OID_NO_SIGNATURE == <<1, 3, 6, 1, 5, 5, 7, 6, 2>>
no_signature_algorithm_identifier ==
    [algorithm |-> OID_NO_SIGNATURE, parameters |-> Some(der_encode("NULL"))]
NoSignatureTbsCertificate_from_rasn_type(tbs_certificate) ==
    [tbs_certificate_b64 |-> der_encode(tbs_certificate)]
NoSignatureTbsCertificate_new(issuer, not_after_epoch_seconds, subject, subject_public_key, exts) ==
    NoSignatureTbsCertificate_from_rasn_type(
        [version |-> "V3",
         serial_number |-> "SerialNumber::default",
         signature |-> no_signature_algorithm_identifier,
         issuer |-> DistinguishedName_as_rasn_type(issuer),
         validity |-> [not_after |-> not_after_epoch_seconds],
         subject |-> DistinguishedName_as_rasn_type(subject),
         subject_public_key_info |-> subject_public_key,
         extensions |-> Extensions_to_rasn_type(exts)])
\* None stands for the panic of an unwrap on bytes that do not decode
with_signature_algorithm_as_bytes(self, signature_algorithm) ==
    LET tbs_certificate == der_decode(self.tbs_certificate_b64)
        signature == der_decode(signature_algorithm) IN
    IF ~IsSome(tbs_certificate) \/ ~IsSome(signature) THEN None
    ELSE Some(der_encode([Unwrap(tbs_certificate) EXCEPT !.signature = Unwrap(signature)]))
\* variant of to_certificate that wraps the cached TBS without the rewrite
to_certificate_cached_tbs(self, signature_algorithm, signature) ==
    LET tbs_certificate == der_decode(self.tbs_certificate_b64)
        alg == der_decode(signature_algorithm) IN
    IF ~IsSome(tbs_certificate) \/ ~IsSome(alg) THEN None
    ELSE Some([tbs_certificate |-> Unwrap(tbs_certificate),
               signature_algorithm |-> Unwrap(alg),
               signature_value |-> signature])
to_certificate(self, signature_algorithm, signature) ==
    LET tbs_certificate == der_decode(self.tbs_certificate_b64)
        alg == der_decode(signature_algorithm) IN
    IF ~IsSome(tbs_certificate) \/ ~IsSome(alg) THEN None
    ELSE LET rewritten == [Unwrap(tbs_certificate) EXCEPT !.signature = Unwrap(alg)] IN
         Some([tbs_certificate |-> rewritten,
               signature_algorithm |-> rewritten.signature,
               signature_value |-> signature])
NoSignatureTbsCertificate_to_rasn_type(self) == Unwrap(der_decode(self.tbs_certificate_b64))

(***************************************************************************)
(* CertificateParser over a decoded Certificate: the typed accessors read  *)
(* the first extension with the OID.                                       *)
(***************************************************************************)
extensions_by_oid(certificate, oid) ==
    LET HasOid(extension) == extension.extn_id = oid IN
    IF IsSome(certificate.tbs_certificate.extensions)
    THEN SelectSeq(Unwrap(certificate.tbs_certificate.extensions), HasOid)
    ELSE <<>>
first_extension_value(certificate, oid) ==
    LET found == extensions_by_oid(certificate, oid) IN
    IF found = <<>> THEN None ELSE der_decode(found[1].extn_value)
parsed_basic_constraints(certificate) ==
    LET rasn_type == first_extension_value(certificate, BasicConstraints_OID) IN
    IF IsSome(rasn_type) THEN Some(BasicConstraints_from_rasn_type(Unwrap(rasn_type)))
    ELSE None
parsed_key_usage(certificate) ==
    LET key_usage == first_extension_value(certificate, KeyUsage_OID) IN
    IF IsSome(key_usage)
    THEN Some([i \in 1..9 |-> i <= Len(Unwrap(key_usage)) /\ Unwrap(key_usage)[i]])
    ELSE None
parsed_extended_key_usage(certificate) ==
    LET ekus == first_extension_value(certificate, ExtendedKeyUsage_OID) IN
    IF IsSome(ekus)
    THEN [i \in DOMAIN Unwrap(ekus) |-> ExtendedKeyUsage_from_oid(Unwrap(ekus)[i])]
    ELSE <<>>
get_alternative_name(certificate, oid) ==
    LET general_names == first_extension_value(certificate, oid) IN
    IF IsSome(general_names) THEN AlternativeName_from_rasn_type(Unwrap(general_names))
    ELSE <<>>
get_subject_alternative_name(certificate) ==
    get_alternative_name(certificate, AlternativeName_OID_SUBJECT_AN)
get_issuer_alternative_name(certificate) ==
    get_alternative_name(certificate, AlternativeName_OID_ISSUER_AN)

(***************************************************************************)
(* The builder as a state machine: add_* calls on one Extensions value,    *)
(* NoSignatureTbsCertificate::new over it, and the two signing helpers.    *)
(***************************************************************************)
BasicConstraintsValues == {new_leaf, new_ca(None), new_ca(Some(0)), new_ca(Some(1))}
KeyUsageLists ==
    {<<>>, <<"DigitalSignature">>, <<"KeyCertSign", "CRLSign">>,
     <<"DecipherOnly", "DigitalSignature">>}
ExtendedKeyUsageLists ==
    {<<>>, <<PkixServerAuth>>, <<PkixClientAuth, PkixServerAuth>>, <<Custom(<<1, 2, 3>>)>>}
AlternativeNameLists ==
    {<<>>, <<<<"DnsName", "example.com">>>>,
     <<<<"IpAddress", "10.0.0.1">>, <<"Uri", "https://example.com">>>>,
     <<<<"IpAddress", "not-an-ip">>>>}
EmptyDn == <<>>
SubjectDns ==
    {EmptyDn, <<<<>>>>, <<<<[name |-> "common_name", value |-> "An entity"]>>>>}
IssuerDn == <<<<[name |-> "common_name", value |-> "An issuer"]>>>>
AlgorithmIdentifierDers ==
    {der_encode([algorithm |-> <<1, 3, 101, 112>>, parameters |-> None]),
     der_encode([algorithm |-> <<1, 2, 840, 10045, 4, 3, 2>>, parameters |-> None]),
     UndecodableBytes}
SignatureValues == {<<1>>, <<2>>}

NewBuild ==
    [op |-> "extensions", added |-> <<>>, subject |-> EmptyDn,
     tbs_certificate_b64 |-> UndecodableBytes, signed |-> None, certificate |-> None]
BuildInit ==
    /\ validator_state = "none"
    /\ fingerprint_by_subject = <<>>
    /\ trust_anchors_by_fingerprint = <<>>
    /\ all_leafs_extension_checkers = <<>>
    /\ call = [c \in {"t1"} |-> IdleCall]
    /\ extensions = <<>>
    /\ tbs = NewBuild
    /\ serial = NoUnit
    /\ pem = NoUnit
    /\ dn = NoUnit
BuildFrame == UNCHANGED <<validator, call, serial, pem, dn>>
\* one add_* call with its argument, and what became of the Vec
AddCall(operation, argument, r) ==
    /\ tbs.op = "extensions"
    /\ Len(tbs.added) < MaxExtensions
    /\ extensions' = r.extensions
    /\ tbs' = [tbs EXCEPT !.op = IF r.res = "panic" THEN "panic" ELSE @,
                          !.added = Append(@, [operation |-> operation,
                                               argument |-> argument])]
    /\ BuildFrame
AddBasicConstraints ==
    \E basic_constraints \in BasicConstraintsValues :
        AddCall("add_basic_constraints", basic_constraints,
                add_basic_constraints(extensions, basic_constraints))
AddKeyUsage ==
    \E key_usages \in KeyUsageLists :
        AddCall("add_key_usage", key_usages, add_key_usage(extensions, key_usages))
AddExtendedKeyUsage ==
    \E extended_key_usages \in ExtendedKeyUsageLists :
        AddCall("add_extended_key_usage", extended_key_usages,
                add_extended_key_usage(extensions, extended_key_usages))
AddSubjectAlternativeName ==
    \E names \in AlternativeNameLists, subject_dn_empty \in BOOLEAN :
        AddCall("add_subject_alternative_name", names,
                add_subject_alternative_name(extensions, names, subject_dn_empty))
AddIssuerAlternativeName ==
    \E names \in AlternativeNameLists :
        AddCall("add_issuer_alternative_name", names,
                add_issuer_alternative_name(extensions, names))
TbsNew ==
    /\ tbs.op = "extensions"
    /\ \E subject \in SubjectDns :
         tbs' = [tbs EXCEPT
                    !.op = "tbs",
                    !.subject = subject,
                    !.tbs_certificate_b64 =
                        NoSignatureTbsCertificate_new(IssuerDn, MaxTime, subject, "kS",
                                                      extensions).tbs_certificate_b64]
    /\ UNCHANGED extensions
    /\ BuildFrame
WithSignatureAlgorithmAsBytes ==
    /\ tbs.op = "tbs"
    /\ \E signature_algorithm \in AlgorithmIdentifierDers :
         LET bytes == with_signature_algorithm_as_bytes(tbs, signature_algorithm) IN
         tbs' = IF IsSome(bytes)
                THEN [tbs EXCEPT !.signed = Some([signature_algorithm |-> signature_algorithm,
                                                  bytes |-> Unwrap(bytes)])]
                ELSE [tbs EXCEPT !.op = "panic"]
    /\ UNCHANGED extensions
    /\ BuildFrame
ToCertificate ==
    /\ tbs.op = "tbs"
    /\ \E signature_algorithm \in AlgorithmIdentifierDers, signature \in SignatureValues :
         LET certificate == to_certificate(tbs, signature_algorithm, signature) IN
         tbs' = IF IsSome(certificate)
                THEN [tbs EXCEPT !.certificate =
                                     Some([signature_algorithm |-> signature_algorithm,
                                           signature |-> signature,
                                           certificate |-> Unwrap(certificate)])]
                ELSE [tbs EXCEPT !.op = "panic"]
    /\ UNCHANGED extensions
    /\ BuildFrame
BuildNext ==
    \/ AddBasicConstraints
    \/ AddKeyUsage
    \/ AddExtendedKeyUsage
    \/ AddSubjectAlternativeName
    \/ AddIssuerAlternativeName
    \/ TbsNew
    \/ WithSignatureAlgorithmAsBytes
    \/ ToCertificate
SpecBuild == BuildInit /\ [][BuildNext]_vars

(***************************************************************************)
(* C11: after any sequence of add_* calls an Extensions value holds at     *)
(* most one extension per OID, in insertion order.                         *)
(***************************************************************************)
PushedOid(entry) ==
    CASE entry.operation = "add_basic_constraints" -> <<2, 5, 29, 19>>
      [] entry.operation = "add_key_usage" -> <<2, 5, 29, 15>>
      [] entry.operation = "add_extended_key_usage" -> <<2, 5, 29, 37>>
      [] entry.operation = "add_subject_alternative_name" -> <<2, 5, 29, 17>>
      [] entry.operation = "add_issuer_alternative_name" -> <<2, 5, 29, 18>>
Pushes(entry) == entry.operation = "add_basic_constraints" \/ entry.argument # <<>>
C11_OneExtensionPerOid ==
    /\ \A i, j \in DOMAIN extensions :
           i # j => extensions[i].extn_id # extensions[j].extn_id
    /\ tbs.op = "extensions" =>
           [i \in DOMAIN extensions |-> extensions[i].extn_id]
               = [i \in DOMAIN SelectSeq(tbs.added, Pushes) |->
                     PushedOid(SelectSeq(tbs.added, Pushes)[i])]

(***************************************************************************)
(* C12: in every emitted TBSCertificate that carries a                     *)
(* SubjectAlternativeName extension, the extension is critical if and      *)
(* only if the subject DN passed to the builder is empty.                  *)
(***************************************************************************)
EmittedTbs == der_decode(tbs.tbs_certificate_b64)
C12_SanCriticalIffSubjectEmpty ==
    IsSome(EmittedTbs) =>
        LET tbs_certificate == Unwrap(EmittedTbs)
            exts == IF IsSome(tbs_certificate.extensions)
                    THEN Unwrap(tbs_certificate.extensions) ELSE <<>> IN
        \A i \in DOMAIN exts :
            exts[i].extn_id = <<2, 5, 29, 17>> =>
                (exts[i].critical <=>
                    (\A r \in DOMAIN tbs_certificate.subject.rdn_sequence :
                         tbs_certificate.subject.rdn_sequence[r] = <<>>))

(***************************************************************************)
(* C13: for one cached TBS and one alg_id_der, the bytes of                *)
(* with_signature_algorithm_as_bytes are the DER of the tbs_certificate    *)
(* inside to_certificate for every signature, the outer                    *)
(* signature_algorithm equals tbs_certificate.signature, the cached TBS    *)
(* keeps its placeholder, and two algorithms differ only in the signature  *)
(* fields.                                                                 *)
(***************************************************************************)
DecodableAlgorithms == {a \in AlgorithmIdentifierDers : "der" \in DOMAIN a}
C13_SignedBytesMatchCertificate ==
    IsSome(EmittedTbs) =>
        /\ Unwrap(EmittedTbs).signature.algorithm = <<1, 3, 6, 1, 5, 5, 7, 6, 2>>
        /\ \A a \in DecodableAlgorithms, sig \in SignatureValues :
               LET bytes == with_signature_algorithm_as_bytes(tbs, a)
                   certificate == to_certificate(tbs, a, sig) IN
               /\ IsSome(bytes) /\ IsSome(certificate)
               /\ Unwrap(bytes) = [der |-> Unwrap(certificate).tbs_certificate]
               /\ Unwrap(certificate).signature_algorithm
                      = Unwrap(certificate).tbs_certificate.signature
               /\ Unwrap(certificate).signature_algorithm = a.der
               /\ Unwrap(certificate).signature_value = sig
               /\ \A b \in DecodableAlgorithms :
                      [Unwrap(to_certificate(tbs, b, sig)).tbs_certificate
                          EXCEPT !.signature = a.der]
                      = Unwrap(certificate).tbs_certificate
        /\ IsSome(tbs.signed) =>
               Unwrap(tbs.signed).bytes
                   = Unwrap(with_signature_algorithm_as_bytes(
                                tbs, Unwrap(tbs.signed).signature_algorithm))
        /\ IsSome(tbs.certificate) =>
               Unwrap(tbs.certificate).certificate
                   = Unwrap(to_certificate(tbs, Unwrap(tbs.certificate).signature_algorithm,
                                           Unwrap(tbs.certificate).signature))
\* both helpers were called on one TBS with extensions, with different algorithms
C13_Witness ==
    /\ IsSome(tbs.signed) /\ IsSome(tbs.certificate)
    /\ Unwrap(tbs.signed).signature_algorithm
           # Unwrap(tbs.certificate).signature_algorithm
    /\ extensions # <<>>

(***************************************************************************)
(* C14: for every typed extension value added through the Extensions       *)
(* builder encoding succeeds, and the typed accessor of a                  *)
(* CertificateParser over the resulting certificate returns the value      *)
(* that was supplied.                                                      *)
(***************************************************************************)
FirstPushed(operation) ==
    LET idx == {i \in DOMAIN tbs.added :
                   tbs.added[i].operation = operation /\ Pushes(tbs.added[i])} IN
    IF idx = {} THEN None
    ELSE Some(tbs.added[CHOOSE i \in idx : \A j \in idx : i <= j].argument)
C14_TypedExtensionsRoundTrip ==
    /\ tbs.op = "panic" => IsSome(EmittedTbs)
    /\ IsSome(tbs.certificate) =>
           LET certificate == Unwrap(tbs.certificate).certificate
               bc == FirstPushed("add_basic_constraints")
               ku == FirstPushed("add_key_usage")
               eku == FirstPushed("add_extended_key_usage")
               san == FirstPushed("add_subject_alternative_name")
               ian == FirstPushed("add_issuer_alternative_name") IN
           /\ parsed_basic_constraints(certificate) = bc
           /\ IF IsSome(ku)
              THEN /\ IsSome(parsed_key_usage(certificate))
                   /\ \A i \in 1..9 :
                          Unwrap(parsed_key_usage(certificate))[i]
                              <=> (\E k \in DOMAIN Unwrap(ku) :
                                       Unwrap(ku)[k] = MSB_ORDERED_KUS[i])
              ELSE ~IsSome(parsed_key_usage(certificate))
           /\ parsed_extended_key_usage(certificate)
                  = (IF IsSome(eku) THEN Unwrap(eku) ELSE <<>>)
           /\ get_subject_alternative_name(certificate)
                  = (IF IsSome(san) THEN Unwrap(san) ELSE <<>>)
           /\ get_issuer_alternative_name(certificate)
                  = (IF IsSome(ian) THEN Unwrap(ian) ELSE <<>>)

(***************************************************************************)
(* SerialNumber::generate (cert/types/serial_number.rs)                    *)
(***************************************************************************)
\* largest octets argument a caller passes in the model
MaxOctetsArg == 22
DEFAULT_OCTETS == 20
MIN_OCTETS == 9
MAX_OCTETS == 20
\* Ord::clamp
clamp(v, min, max) == IF v < min THEN min ELSE IF v > max THEN max ELSE v
\* variant that leaves rnd[0] as the generator filled it
clear_sign_bit_skipped(rnd) == rnd
\* rnd[0] &= 0x7f
clear_sign_bit(rnd) == [rnd EXCEPT ![1] = @ % 128]
\* rnd.iter().any(|octet| octet != &0)
any_non_zero(rnd) == \E i \in DOMAIN rnd : rnd[i] # 0
\* what the generator may write into a buffer of this length: the first and
\* the last octet are free, the octets between them are all equal
FirstOctets == {0, 1, 127, 128, 255}
OtherOctets == {0, 255}
LastOctets == {0, 1}
prng_fill_with_random(len, first, other, last) ==
    [i \in 1..len |-> IF i = 1 THEN first ELSE IF i = len THEN last ELSE other]
OctetsArgs == {None} \cup {Some(n) : n \in 0..MaxOctetsArg}
SerialInit ==
    /\ validator_state = "none"
    /\ fingerprint_by_subject = <<>>
    /\ trust_anchors_by_fingerprint = <<>>
    /\ all_leafs_extension_checkers = <<>>
    /\ call = [c \in {"t1"} |-> IdleCall]
    /\ extensions = <<>>
    /\ tbs = NoUnit
    /\ serial = NoUnit
    /\ pem = NoUnit
    /\ dn = NoUnit
SerialFrame == UNCHANGED <<validator, call, extensions, tbs, pem, dn>>
\* generate is entered: the length is fixed and the buffer is vec![127u8; octets]
GenerateCall ==
    /\ serial.op = "none"
    /\ \E arg \in OctetsArgs :
        LET octets == clamp(IF IsSome(arg) THEN Unwrap(arg) ELSE DEFAULT_OCTETS,
                            MIN_OCTETS, MAX_OCTETS) IN
        serial' = [op |-> "fill", arg |-> arg, octets |-> octets,
                   rnd |-> [i \in 1..octets |-> 127], retried |-> FALSE]
    /\ SerialFrame
\* one pass of the loop body up to the test
GenerateFill ==
    /\ serial.op = "fill"
    /\ \E first \in FirstOctets, other \in OtherOctets, last \in LastOctets :
        serial' = [serial EXCEPT
            !.op = "test",
            !.rnd = clear_sign_bit(
                        prng_fill_with_random(serial.octets, first, other, last))]
    /\ SerialFrame
\* the test at the end of the loop body: break, or go round again
GenerateTest ==
    /\ serial.op = "test"
    /\ serial' = IF any_non_zero(serial.rnd)
                 THEN [serial EXCEPT !.op = "done"]
                 ELSE [serial EXCEPT !.op = "fill", !.retried = TRUE]
    /\ SerialFrame
\* the SerialNumber is dropped
SerialDrop ==
    /\ serial.op = "done"
    /\ serial' = NoUnit
    /\ SerialFrame
SerialNext == GenerateCall \/ GenerateFill \/ GenerateTest \/ SerialDrop
SpecSerial == SerialInit /\ [][SerialNext]_vars

(***************************************************************************)
(* C15: SerialNumber::generate(octets) returns, for every octets value     *)
(* including None, 0 and values above 20, exactly clamp(octets or 20, 9,   *)
(* 20) octets, with the most significant bit of the first octet 0 and at   *)
(* least one non-zero octet.                                               *)
(***************************************************************************)
C15_GeneratedSerialNumber ==
    serial.op = "done" =>
        LET asked == IF serial.arg = <<>> THEN 20 ELSE serial.arg[1]
            expected == IF asked < 9 THEN 9 ELSE IF asked > 20 THEN 20 ELSE asked IN
        /\ Len(serial.rnd) = expected
        /\ serial.rnd[1] < 128
        /\ \A i \in 1..Len(serial.rnd) : serial.rnd[i] \in 0..255
        /\ \E i \in 1..Len(serial.rnd) : serial.rnd[i] # 0
\* a serial number asked with more than 20 octets, returned after an all-zero draw
C15_Witness ==
    /\ serial.op = "done"
    /\ serial.arg # <<>> /\ serial.arg[1] > 20
    /\ serial.retried
    /\ serial.rnd[1] = 0

(***************************************************************************)
(* pem::parse (encdec/pem.rs, encdec/pem/pem_markers.rs)                   *)
(*                                                                         *)
(* A line is the sequence of its pieces, so that starts_with and ends_with *)
(* look at the first and the last piece.                                   *)
(***************************************************************************)
\* longest text, in lines
MaxLines == 4
BEGIN_LINE_START == "-----BEGIN "
BEGIN_LINE_FINISH == "-----"
END_LINE_START == "-----END "
END_LINE_FINISH == BEGIN_LINE_FINISH
starts_with(line, prefix) == Len(line) >= 2 /\ line[1] = prefix
ends_with(line, suffix) == Len(line) >= 2 /\ line[Len(line)] = suffix
\* Marker::from_begin_line: what lies between the start and the finish
from_begin_line(begin_line) ==
    LET label == SubSeq(begin_line, 2, Len(begin_line) - 1) IN
    CASE label = <<"CERTIFICATE">> -> [marker |-> "Certificate"]
      [] label = <<"X509 CRL">> -> [marker |-> "CertificateRevocationList"]
      [] label = <<"PRIVATE KEY">> -> [marker |-> "PrivateKey"]
      [] OTHER -> [marker |-> "Custom", unknown_marker |-> label]
\* tyst::encdec::base64::decode: None for text outside the alphabet
base64_decode(line) ==
    CASE line = <<>> -> Some(<<>>)
      [] line = <<"AAAA">> -> Some(<<0, 0, 0>>)
      [] line = <<"AQID">> -> Some(<<1, 2, 3>>)
      [] OTHER -> None
PemLines ==
    { <<BEGIN_LINE_START, "CERTIFICATE", BEGIN_LINE_FINISH>>,
      <<BEGIN_LINE_START, "FOO", BEGIN_LINE_FINISH>>,
      <<END_LINE_START, "CERTIFICATE", END_LINE_FINISH>>,
      <<END_LINE_START, "FOO", END_LINE_FINISH>>,
      <<"AAAA">>, <<"AQID">>, <<"%%%%">>, <<>> }
PemTexts == UNION {[1..n -> PemLines] : n \in 0..MaxLines}
PemInit ==
    /\ validator_state = "none"
    /\ fingerprint_by_subject = <<>>
    /\ trust_anchors_by_fingerprint = <<>>
    /\ all_leafs_extension_checkers = <<>>
    /\ call = [c \in {"t1"} |-> IdleCall]
    /\ extensions = <<>>
    /\ tbs = NoUnit
    /\ serial = NoUnit
    /\ pem = NoUnit
    /\ dn = NoUnit
PemFrame == UNCHANGED <<validator, call, extensions, tbs, serial, dn>>
\* parse is entered: ret is empty, content is None
ParseCall ==
    /\ pem.op = "none"
    /\ \E textual_encoding \in PemTexts :
        pem' = [op |-> "lines", lines |-> textual_encoding, next |-> 1,
                ret |-> <<>>, content |-> None, result |-> "none"]
    /\ PemFrame
\* the body of the for loop, for one line
parse_line(self, line) ==
    IF /\ ~IsSome(self.content)
       /\ starts_with(line, BEGIN_LINE_START)
       /\ ends_with(line, BEGIN_LINE_FINISH)
    THEN [self EXCEPT !.content = Some(<<from_begin_line(line), <<>>>>),
                      !.next = @ + 1]
    ELSE IF starts_with(line, END_LINE_START) /\ ends_with(line, END_LINE_FINISH)
    THEN IF IsSome(self.content)
         THEN [self EXCEPT !.ret = Append(@, Unwrap(self.content)),
                           !.content = None,
                           !.next = @ + 1]
         ELSE [self EXCEPT !.op = "done", !.result = "panic"]
    ELSE IF ~IsSome(base64_decode(line))
    THEN [self EXCEPT !.op = "done", !.result = "DecodingError"]
    ELSE IF IsSome(self.content)
    THEN [self EXCEPT
             !.content = Some(<<Unwrap(self.content)[1],
                                Unwrap(self.content)[2] \o Unwrap(base64_decode(line))>>),
             !.next = @ + 1]
    ELSE [self EXCEPT !.op = "done", !.result = "panic"]
ParseLine ==
    /\ pem.op = "lines"
    /\ pem.next <= Len(pem.lines)
    /\ pem' = parse_line(pem, pem.lines[pem.next])
    /\ PemFrame
\* after the last line
ParseEnd ==
    /\ pem.op = "lines"
    /\ pem.next > Len(pem.lines)
    /\ pem' = [pem EXCEPT !.op = "done",
                          !.result = IF IsSome(pem.content)
                                     THEN "DecodingError" ELSE "Ok"]
    /\ PemFrame
PemDrop ==
    /\ pem.op = "done"
    /\ pem' = NoUnit
    /\ PemFrame
PemNext == ParseCall \/ ParseLine \/ ParseEnd \/ PemDrop
SpecPem == PemInit /\ [][PemNext]_vars

(***************************************************************************)
(* C16: pem::parse returns the decoded objects as a list of (label,        *)
(* bytes) in the order of their BEGIN lines, the label being taken from    *)
(* the BEGIN line, and returns a DecodingError whenever the text ends      *)
(* while a BEGIN block has not been closed by an END line.                 *)
(***************************************************************************)
IsBeginLine(line) == Len(line) = 3 /\ line[1] = "-----BEGIN " /\ line[3] = "-----"
IsEndLine(line) == Len(line) = 3 /\ line[1] = "-----END " /\ line[3] = "-----"
EndsInOpenBlock(text) ==
    \E i \in DOMAIN text :
        /\ IsBeginLine(text[i])
        /\ \A j \in DOMAIN text : j > i => ~IsEndLine(text[j])
C16_ParseResult ==
    pem.op = "done" =>
        /\ EndsInOpenBlock(pem.lines) => pem.result = "DecodingError"
        /\ pem.result = "Ok" =>
               LET begins == SelectSeq(pem.lines, IsBeginLine) IN
               /\ Len(pem.ret) = Len(begins)
               /\ \A i \in DOMAIN begins :
                      pem.ret[i][1] = (IF begins[i][2] = "CERTIFICATE"
                                       THEN [marker |-> "Certificate"]
                                       ELSE [marker |-> "Custom",
                                             unknown_marker |-> <<begins[i][2]>>])

(***************************************************************************)
(* WellKnownAttribute::validate and DistinguishedName::new                 *)
(* (cert/types/distinguished_name/attributes.rs,                           *)
(* cert/types/distinguished_name.rs)                                       *)
(*                                                                         *)
(* A value is its number of characters and the widest alphabet one of its  *)
(* characters needs: "printable", "ia5" (ASCII outside PrintableString,    *)
(* such as '@') or "utf8" (two octets each).                               *)
(***************************************************************************)
\* longest attribute value, in characters
MaxValueLen == 41
\* AttributeLookup.atavi_by_name, for three of the registered attributes
atavi_by_name ==
    [country_name |-> [encoding |-> "PrintableString", max_char_len |-> 2],
     domain_component |-> [encoding |-> "IA5String", max_char_len |-> 63],
     postal_code |-> [encoding |-> "Utf8String", max_char_len |-> 40]]
meta_data_by_name(name) ==
    IF name \in DOMAIN atavi_by_name THEN Some(atavi_by_name[name]) ELSE None
\* str::len: octets
str_len(value) == IF value.alphabet = "utf8" THEN 2 * value.chars ELSE value.chars
\* Ia5String::from_iso646_bytes and PrintableString::from_bytes: the length,
\* or None for a character outside the alphabet
Ia5String_from_iso646_bytes(value) ==
    IF value.chars > 0 /\ value.alphabet = "utf8" THEN None ELSE Some(value.chars)
PrintableString_from_bytes(value) ==
    IF value.chars > 0 /\ value.alphabet # "printable" THEN None ELSE Some(value.chars)
\* WellKnownAttribute::validate: "panic" where an unwrap meets None or Err
WellKnownAttribute_validate(idf) ==
    LET atavi == meta_data_by_name(idf.name) IN
    IF ~IsSome(atavi) THEN "panic"
    ELSE LET len == CASE Unwrap(atavi).encoding = "IA5String" ->
                             Ia5String_from_iso646_bytes(idf.value)
                      [] Unwrap(atavi).encoding = "PrintableString" ->
                             PrintableString_from_bytes(idf.value)
                      [] OTHER -> Some(str_len(idf.value)) IN
         IF ~IsSome(len) THEN "panic"
         ELSE IF Unwrap(len) > Unwrap(atavi).max_char_len
         THEN "InvalidAttributeValue"
         ELSE "Ok"
\* DistinguishedName::new: validate(idf).unwrap() for every fragment
DistinguishedName_new(rdns) ==
    IF \A r \in DOMAIN rdns : \A i \in DOMAIN rdns[r] :
           WellKnownAttribute_validate(rdns[r][i]) = "Ok"
    THEN "Ok" ELSE "panic"
AttributeValues ==
    {[chars |-> n, alphabet |-> a] :
        n \in 0..MaxValueLen, a \in {"printable", "ia5", "utf8"}}
AttributeNames == {"country_name", "domain_component", "postal_code", "no_such_attribute"}
IdentityFragments == {[name |-> n, value |-> v] : n \in AttributeNames, v \in AttributeValues}
\* the fragments DistinguishedName::new is called with
DnFragments ==
    {[name |-> n, value |-> [chars |-> c, alphabet |-> a]] :
        n \in AttributeNames, c \in {2, 3}, a \in {"printable", "utf8"}}
DnInit ==
    /\ validator_state = "none"
    /\ fingerprint_by_subject = <<>>
    /\ trust_anchors_by_fingerprint = <<>>
    /\ all_leafs_extension_checkers = <<>>
    /\ call = [c \in {"t1"} |-> IdleCall]
    /\ extensions = <<>>
    /\ tbs = NoUnit
    /\ serial = NoUnit
    /\ pem = NoUnit
    /\ dn = NoUnit
DnFrame == UNCHANGED <<validator, call, extensions, tbs, serial, pem>>
ValidateAttribute ==
    /\ dn.op = "none"
    /\ \E idf \in IdentityFragments :
        dn' = [op |-> "validate", idf |-> idf,
               result |-> WellKnownAttribute_validate(idf)]
    /\ DnFrame
DnNew ==
    /\ dn.op = "none"
    /\ \E first \in DnFragments, second \in DnFragments, two \in BOOLEAN :
        LET rdns == IF two THEN <<<<first>>, <<second>>>> ELSE <<<<first>>>> IN
        dn' = [op |-> "new", rdns |-> rdns, result |-> DistinguishedName_new(rdns)]
    /\ DnFrame
DnDrop ==
    /\ dn.op # "none"
    /\ dn' = NoUnit
    /\ DnFrame
DnNext == ValidateAttribute \/ DnNew \/ DnDrop
SpecDn == DnInit /\ [][DnNext]_vars

(***************************************************************************)
(* C17: WellKnownAttribute::validate returns Err UnknownAttribute for an   *)
(* unknown attribute name and Err InvalidAttributeValue for a value that   *)
(* is too long or outside the attribute's alphabet, as returned values;    *)
(* DistinguishedName::new returns that error instead of aborting.          *)
(***************************************************************************)
ClaimedValidate(idf) ==
    IF idf.name \notin {"country_name", "domain_component", "postal_code"}
    THEN "UnknownAttribute"
    ELSE LET limit == CASE idf.name = "country_name" -> 2
                        [] idf.name = "domain_component" -> 63
                        [] OTHER -> 40
             in_alphabet ==
                 \/ idf.value.chars = 0
                 \/ idf.name = "postal_code"
                 \/ idf.name = "domain_component" /\ idf.value.alphabet # "utf8"
                 \/ idf.name = "country_name" /\ idf.value.alphabet = "printable"
             length == IF idf.value.alphabet = "utf8" /\ idf.name = "postal_code"
                       THEN 2 * idf.value.chars ELSE idf.value.chars IN
         IF ~in_alphabet \/ length > limit THEN "InvalidAttributeValue" ELSE "Ok"
C17_ValidateReturnsErrors ==
    /\ dn.op = "validate" => dn.result = ClaimedValidate(dn.idf)
    /\ dn.op = "new" =>
           /\ dn.result # "panic"
           /\ dn.result = "Ok" <=>
                  \A r \in DOMAIN dn.rdns : ClaimedValidate(dn.rdns[r][1]) = "Ok"

(***************************************************************************)
(* C20: BasicConstraintsChecker accepts a chain if and only if every       *)
(* certificate at index i >= 1 of chain_with_trust has BasicConstraints    *)
(* present with ca = true and a path length that is absent or at least     *)
(* i - 1; it rejects with ExtensionHandlingFailure otherwise, and on       *)
(* acceptance removes the BasicConstraints OID from the pending set.       *)
(***************************************************************************)
ClaimedBasicConstraintsOk(chain) ==
    \A n \in 2..Len(chain) :
        LET bc == Certs[chain[n]].basic_constraints
            i == n - 1 IN
        /\ bc # <<>>
        /\ bc[1].ca
        /\ bc[1].path_len = <<>> \/ bc[1].path_len[1] >= i - 1
C20_BasicConstraintsChecker ==
    \A c \in DOMAIN call :
        \A k \in DOMAIN call[c].invoked :
            LET e == call[c].invoked[k] IN
            e.checker.kind = "BasicConstraintsChecker" =>
                /\ e.res \in {"Ok", "ExtensionHandlingFailure"}
                /\ e.res = "Ok" <=> ClaimedBasicConstraintsOk(call[c].chain_with_trust)
                /\ e.res = "Ok" => e.after = e.before \ {<<2, 5, 29, 19>>}

(***************************************************************************)
(* C18: validate calls running concurrently on one shared                  *)
(* CertificatePathValidator do not interact: under every interleaving each *)
(* call returns the result it would return when run alone.                 *)
(***************************************************************************)
C18_ConcurrentCallsRunAlone ==
    \A c \in DOMAIN call :
        Done(c) =>
            call[c].result =
                validate_outcome(fingerprint_by_subject, trust_anchors_by_fingerprint,
                                 all_leafs_extension_checkers,
                                 call[c].leaf_certificate_chain_der,
                                 call[c].at_epoch_seconds,
                                 call[c].additional_extension_checkers)
\* one call has returned Ok while the other, on another chain and with other
\* checkers, has collected its critical OIDs and not yet returned
C18_Witness ==
    /\ Done("t2") /\ call["t2"].result = "Ok"
    /\ call["t1"].pc = "checkers"
    /\ call["t1"].leaf_certificate_chain_der # call["t2"].leaf_certificate_chain_der
    /\ call["t1"].additional_extension_checkers # call["t2"].additional_extension_checkers

(***************************************************************************)
(* C19: checkers passed as additional_extension_checkers take part in that *)
(* call only: a later call runs exactly the always-on checkers plus its    *)
(* own, so an OID discharged only by an earlier call's extra checker is    *)
(* reported as UnhandledCriticalExtensions by the later call.              *)
(***************************************************************************)
OwnCheckers(c) == all_leafs_extension_checkers \o call[c].additional_extension_checkers
C19_PerCallCheckersOnly ==
    \A c \in DOMAIN call :
        /\ Len(call[c].invoked) <= Len(OwnCheckers(c))
        /\ \A i \in DOMAIN call[c].invoked : call[c].invoked[i].checker = OwnCheckers(c)[i]
        /\ (Done(c) /\ call[c].result \in {"Ok", "UnhandledCriticalExtensions"}) =>
               LET left == UNION {Certs[call[c].chain_with_trust[n]].critical :
                                     n \in 1..(Len(call[c].chain_with_trust) - 1)}
                           \ UNION {CheckedOids(OwnCheckers(c)[i].kind) :
                                       i \in DOMAIN OwnCheckers(c)} IN
               /\ Len(call[c].invoked) = Len(OwnCheckers(c))
               /\ call[c].result = "Ok" <=> left = {}
\* the earlier call passed extra checkers and returned Ok; the later call on the
\* same chain without them reports the OIDs they had discharged
C19_Witness ==
    \E c \in DOMAIN call :
        /\ Done(c) /\ call[c].result = "UnhandledCriticalExtensions"
        /\ call[c].additional_extension_checkers = <<>>
        /\ IsSome(call[c].earlier)
        /\ Unwrap(call[c].earlier).result = "Ok"
        /\ Unwrap(call[c].earlier).additional_extension_checkers # <<>>
        /\ Unwrap(call[c].earlier).leaf_certificate_chain_der
               = call[c].leaf_certificate_chain_der

(***************************************************************************)
(* C21: a chain in which a CA certificate with path_len = Some(0) has at   *)
(* least one intermediate CA certificate below it (index i >= 2 of the     *)
(* ordered chain) is rejected by validate with the standard checkers,      *)
(* while the same certificate directly above the leaf is allowed.          *)
(***************************************************************************)
IsCaCert(cp) ==
    Certs[cp].basic_constraints # <<>> /\ Certs[cp].basic_constraints[1].ca
PathLenZeroAboveIntermediate(chain) ==
    \E n \in 3..Len(chain) :
        /\ IsCaCert(chain[n])
        /\ Certs[chain[n]].basic_constraints[1].path_len = <<0>>
        /\ \A m \in 2..(n - 1) : IsCaCert(chain[m])
C21_PathLenZeroAboveIntermediate ==
    \A c \in DOMAIN call :
        (/\ Done(c)
         /\ all_leafs_extension_checkers = StandardCheckers
         /\ call[c].additional_extension_checkers = <<>>
         /\ PathLenZeroAboveIntermediate(call[c].chain_with_trust))
        => call[c].result # "Ok"

(***************************************************************************)
(* C22: trust attachment selects the lowest position of the ordered chain  *)
(* whose certificate is a registered trust anchor by fingerprint or has    *)
(* its issuer DN in the anchor-by-subject index; the kind of match at that *)
(* position decides between truncation and appending, and validate         *)
(* returns NotTrusted exactly when no position matches either way.         *)
(***************************************************************************)
TrustMatch(cp) ==
    IsRegisteredAnchor(cp) \/ Certs[cp].issuer \in DOMAIN fingerprint_by_subject
C22_LowestTrustPosition ==
    \A c \in DOMAIN call :
        LET chain == call[c].leaf_chain IN
        /\ call[c].trust_how # "none" =>
               /\ TrustMatch(chain[call[c].trust_pos])
               /\ \A q \in 1..(call[c].trust_pos - 1) : ~TrustMatch(chain[q])
               /\ call[c].trust_how = "fingerprint"
                      <=> IsRegisteredAnchor(chain[call[c].trust_pos])
        /\ (Done(c) /\ call[c].result = "NotTrusted") =>
               \A q \in DOMAIN chain : ~TrustMatch(chain[q])

(***************************************************************************)
(* C23: within one validate call the steps run strictly one after another  *)
(* (time filter, leaf detection, ordering, trust attachment, anchor time   *)
(* check, signature verification, critical-set construction, checkers,     *)
(* closure) and the first step that fails determines the returned error;   *)
(* no extension checker is invoked unless every signature of the           *)
(* assembled chain has verified, so a chain with a bad signature yields    *)
(* InvalidSignature or UnknownSignature whatever the checkers would have   *)
(* answered.                                                               *)
(***************************************************************************)
StepOrder ==
    {<<"idle", "time_filter">>, <<"time_filter", "leaf_detection">>,
     <<"leaf_detection", "ordering">>, <<"ordering", "attach_trust">>,
     <<"attach_trust", "anchor_time">>, <<"anchor_time", "signatures">>,
     <<"signatures", "critical_set">>, <<"critical_set", "checkers">>,
     <<"done", "idle">>}
ErrorsOfStep(pc) ==
    CASE pc = "time_filter" -> {"InvalidLifeSpan", "panic"}
      [] pc = "leaf_detection" -> {"NotOneLeaf"}
      [] pc = "ordering" -> {"NotOneLeaf"}
      [] pc = "attach_trust" -> {"NotTrusted"}
      [] pc = "anchor_time" -> {"InvalidLifeSpan", "panic"}
      [] pc = "signatures" -> {"InvalidSignature", "UnknownSignature"}
      [] pc = "checkers" -> {"ExtensionHandlingFailure", "UnhandledCriticalExtensions", "Ok"}
      [] OTHER -> {}
BadSignatures(chain) == {n \in 1..(Len(chain) - 1) : ~SignedBy(chain[n], chain[n + 1])}
C23_StepsInOrder ==
    [][\A c \in DOMAIN call :
          LET a == call[c]
              b == call'[c]
              bad == BadSignatures(a.chain_with_trust) IN
          /\ (a.pc # b.pc /\ b.pc # "done") => <<a.pc, b.pc>> \in StepOrder
          /\ (a.pc # "done" /\ b.pc = "done") => b.result \in ErrorsOfStep(a.pc)
          /\ b.invoked # a.invoked =>
                 (b.invoked = <<>> \/ (a.pc = "checkers" /\ bad = {}))
          /\ (a.pc = "signatures" /\ bad # {}) =>
                 /\ b.pc = "done"
                 /\ b.invoked = <<>>
                 /\ LET top == CHOOSE n \in bad : \A m \in bad : m <= n IN
                    b.result = IF Certs[a.chain_with_trust[top]].sig_oid
                                      \in KnownSignatureOids
                                 THEN "InvalidSignature" ELSE "UnknownSignature"]_vars
\* a call ended with UnknownSignature before any of the registered checkers ran
C23_Witness ==
    \E c \in DOMAIN call :
        /\ Done(c) /\ call[c].result = "UnknownSignature"
        /\ all_leafs_extension_checkers # <<>>
        /\ call[c].additional_extension_checkers # <<>>
        /\ call[c].invoked = <<>>
        /\ Len(call[c].chain_with_trust) = 3

(***************************************************************************)
(* C24: in one validate call the checkers are invoked one at a time, first *)
(* every always-on checker in the order it was registered, then every      *)
(* per-call checker in list order; a checker is invoked only after all     *)
(* earlier ones returned success, and the first checker that rejects ends  *)
(* the call with that checker's error without invoking the remaining ones. *)
(***************************************************************************)
C24_CheckersInOrder ==
    [][/\ Len(all_leafs_extension_checkers') >= Len(all_leafs_extension_checkers)
       /\ SubSeq(all_leafs_extension_checkers', 1, Len(all_leafs_extension_checkers))
              = all_leafs_extension_checkers
       /\ \A c \in DOMAIN call :
              LET a == call[c]
                  b == call'[c]
                  k == Len(b.invoked)
                  registered == all_leafs_extension_checkers
                  passed == a.additional_extension_checkers IN
              (b.invoked # a.invoked /\ b.invoked # <<>>) =>
                  /\ k = Len(a.invoked) + 1
                  /\ SubSeq(b.invoked, 1, k - 1) = a.invoked
                  /\ \A i \in 1..(k - 1) : b.invoked[i].res = "Ok"
                  /\ b.invoked[k].checker =
                         (IF k <= Len(registered) THEN registered[k]
                          ELSE passed[k - Len(registered)])
                  /\ b.invoked[k].before = a.critical_extension_oids
                  /\ b.invoked[k].res # "Ok" =>
                         (b.pc = "done" /\ b.result = b.invoked[k].res)
                  /\ b.invoked[k].res = "Ok" => b.pc = "checkers"]_vars
\* the always-on checkers passed, the first per-call checker rejected and the
\* second per-call checker was not invoked
C24_Witness ==
    \E c \in DOMAIN call :
        /\ Done(c) /\ call[c].result = "ExtensionHandlingFailure"
        /\ all_leafs_extension_checkers # <<>>
        /\ Len(call[c].invoked) = Len(all_leafs_extension_checkers) + 1
        /\ Len(call[c].additional_extension_checkers) = 2


(***************************************************************************)
(* The requirement checkers, seen through the log of invoked checkers.     *)
(***************************************************************************)
InvokedOf(kind) ==
    {<<c, k>> \in (DOMAIN call) \X (1..(MaxCheckers + 3)) :
        /\ k <= Len(call[c].invoked)
        /\ call[c].invoked[k].checker.kind = kind}
RequiredAt(checker, n) == IF n = 1 THEN checker.leaf ELSE checker.issuer

\* C25: KeyUsageChecker accepts exactly when every certificate either has
\* a KeyUsage extension with every required flag set (the leaf set at
\* index 0, the issuer set above), or has none and nothing is required of
\* it; the default requires DigitalSignature of the leaf and KeyCertSign of
\* the issuers; accepting removes the KeyUsage OID from the pending set
\* and rejecting is ExtensionHandlingFailure.
KeyUsageSatisfied(checker, chain) ==
    \A n \in 1..Len(chain) :
        \/ /\ Certs[chain[n]].key_usage # None
           /\ RequiredAt(checker, n) \subseteq Unwrap(Certs[chain[n]].key_usage)
        \/ /\ Certs[chain[n]].key_usage = None
           /\ RequiredAt(checker, n) = {}
KeyIdentifiersLinked(chain) ==
    \A n \in 1..(Len(chain) - 1) :
        Certs[chain[n]].aki # None
            => /\ Certs[chain[n + 1]].ski # None
               /\ Unwrap(Certs[chain[n + 1]].ski) = Unwrap(Certs[chain[n]].aki)
C26_KeyIdentifierChecker ==
    \A e \in InvokedOf("KeyIdentifierChecker") :
        LET entry == call[e[1]].invoked[e[2]] IN
        /\ entry.res = "Ok" <=> KeyIdentifiersLinked(call[e[1]].chain_with_trust)
        /\ entry.res = "Ok"
              => entry.after = entry.before
                     \ {AuthorityKeyIdentifier_OID, SubjectKeyIdentifier_OID}
        /\ entry.res # "Ok" => entry.res = "ExtensionHandlingFailure"
\* a call whose KeyIdentifierChecker accepted a chain with a linked pair and
\* took both OIDs out of the pending set
C26_Witness ==
    \E e \in InvokedOf("KeyIdentifierChecker") :
        LET entry == call[e[1]].invoked[e[2]]
            chain == call[e[1]].chain_with_trust IN
        /\ entry.res = "Ok"
        /\ {AuthorityKeyIdentifier_OID, SubjectKeyIdentifier_OID} \subseteq entry.before
        /\ Len(chain) >= 2
        /\ Certs[chain[1]].aki # None

\* C27: CertificatePoliciesChecker and ExtendedKeyUsageChecker each accept
\* exactly when, for every certificate, the required set (the leaf set at
\* index 0, the issuer set above) is a subset of the values the certificate
\* declares, so a certificate declaring nothing passes only an empty
\* required set; accepting removes the checker's own OID from the pending
\* set and rejecting is ExtensionHandlingFailure.
DeclaredBy(kind, cp) ==
    IF kind = "CertificatePoliciesChecker" THEN Certs[cp].policies ELSE Certs[cp].ekus
OidOf(kind) ==
    IF kind = "CertificatePoliciesChecker" THEN CertificatePolicy_OID
    ELSE ExtendedKeyUsage_OID
RequiredDeclared(checker, chain) ==
    \A n \in 1..Len(chain) :
        /\ RequiredAt(checker, n) \subseteq DeclaredBy(checker.kind, chain[n])
        /\ DeclaredBy(checker.kind, chain[n]) = {} => RequiredAt(checker, n) = {}
C27_RequiredSetCheckers ==
    \A kind \in {"CertificatePoliciesChecker", "ExtendedKeyUsageChecker"} :
        \A e \in InvokedOf(kind) :
            LET entry == call[e[1]].invoked[e[2]] IN
            /\ entry.res = "Ok"
                  <=> RequiredDeclared(entry.checker, call[e[1]].chain_with_trust)
            /\ entry.res = "Ok" => entry.after = entry.before \ {OidOf(kind)}
            /\ entry.res # "Ok" => entry.res = "ExtensionHandlingFailure"
\* a call where a CertificatePoliciesChecker with issuer policies and an
\* ExtendedKeyUsageChecker both accepted and each took its OID out
C27_Witness ==
    /\ \E e \in InvokedOf("CertificatePoliciesChecker") :
         LET entry == call[e[1]].invoked[e[2]] IN
         /\ entry.res = "Ok"
         /\ entry.checker.issuer # {}
         /\ CertificatePolicy_OID \in entry.before
    /\ \E e \in InvokedOf("ExtendedKeyUsageChecker") :
         LET entry == call[e[1]].invoked[e[2]] IN
         /\ entry.res = "Ok"
         /\ entry.checker.leaf # {}
         /\ ExtendedKeyUsage_OID \in entry.before

\* C28: when ordering completes without error the ordered chain starts
\* with the unique leaf, holds every supplied certificate exactly once and
\* links each certificate's issuer DN to the subject DN of the next; a
\* supplied certificate that is not on the leaf's issuer path makes the
\* call end with NotOneLeaf; the loop runs at most once per supplied
\* certificate.
OrderingRan(c) ==
    /\ call[c].pc \notin {"idle", "time_filter", "leaf_detection", "ordering"}
    /\ call[c].leaf_chain # <<>>
OrderingCompleted(c) ==
    OrderingRan(c) /\ Len(call[c].leaf_chain) = Len(call[c].leaf_certificates)
Linked(chain) ==
    \A n \in 1..(Len(chain) - 1) :
        Certs[chain[n + 1]].subject = Certs[chain[n]].issuer
StartsWithLeaf(chain) ==
    \/ Certs[chain[1]].basic_constraints = None
    \/ ~Unwrap(Certs[chain[1]].basic_constraints).ca
AllOnIssuerPath(supplied) ==
    \E path \in PermutationsOf(supplied) : StartsWithLeaf(path) /\ Linked(path)
C28_OrderedChain ==
    \A c \in DOMAIN call :
        /\ OrderingRan(c) => Len(call[c].leaf_chain) <= Len(call[c].leaf_certificates)
        /\ OrderingCompleted(c)
              => /\ StartsWithLeaf(call[c].leaf_chain)
                 /\ call[c].leaf_chain \in PermutationsOf(call[c].leaf_certificates)
                 /\ Linked(call[c].leaf_chain)
        /\ (OrderingRan(c) /\ ~AllOnIssuerPath(call[c].leaf_certificates))
              => call[c].pc = "done" /\ call[c].result = "NotOneLeaf"

\* C29: every trust anchor passed to new stays usable for issuer lookup:
\* when the certificate the anchor is attached to by issuer DN is signed by
\* the key of a registered anchor with that subject DN, and every signature
\* below it verifies, validate does not reject the chain with
\* InvalidSignature or NotTrusted.
IssuingAnchors(cp) ==
    {anchor \in RegisteredAnchors :
        /\ Certs[anchor].subject = Certs[cp].issuer
        /\ SignedBy(cp, anchor)}
C29_SameSubjectAnchorsUsable ==
    \A c \in DOMAIN call :
        (/\ Done(c)
         /\ call[c].trust_how = "issuer"
         /\ IssuingAnchors(call[c].leaf_chain[call[c].trust_pos]) # {}
         /\ \A n \in 1..(call[c].trust_pos - 1) :
                SignedBy(call[c].leaf_chain[n], call[c].leaf_chain[n + 1]))
            => call[c].result \notin {"InvalidSignature", "NotTrusted"}

\* C30: pem::parse ends in Ok or in DecodingError for every input; an END
\* line with no open block and a line that is no marker outside a block
\* are skipped or reported as DecodingError, and never abort the caller.
C30_ParseNeverAborts ==
    pem.op = "done" => pem.result \in {"Ok", "DecodingError"}
====
